---------------------------- MODULE Spec2Model ----------------------------
(***************************************************************************)
(* Model of the spectrum-send acoustic BPSK modem: the frame codec, the     *)
(* CRC-16 engine, the convolutional code with its Viterbi decoder, the      *)
(* frame synchronizer of app.js and the lock/holdoff logic of the           *)
(* demodulator worklet.                                                     *)
(***************************************************************************)
EXTENDS Integers, Sequences, FiniteSets, TLC

(***************************************************************************)
(* Program constants (app.js).                                              *)
(***************************************************************************)
PREAMBLE_BITS == 80
\* 0xa5a5a5a5 >>> 0, held as its two 16-bit halves <<high, low>> (0xa5a5 each)
SYNC_WORD == <<42405, 42405>>
VERSION == 1
K == 7
FLUSH_BITS == K - 1
G0 == 91                     \* 0x5b
G1 == 121                    \* 0x79
NumStates == 64              \* trellis states, 2^(K-1)
INF == 1000000000            \* 1e9, exactly representable as Float32
CRC_INIT == 65535            \* 0xffff
CRC_POLY == 4129             \* 0x1021
SyncCap == 4096              \* bitBuffer.length > 4096 triggers the trim
SyncKeep == 2048             \* bitBuffer.slice(-2048)
MaxPayloadBytes == 255       \* payload.length > 255 throws

(***************************************************************************)
(* Let(v, F) is F(v), with v computed once before F uses it: what a local   *)
(* variable of the code is.                                                 *)
(***************************************************************************)
Let(v, F(_)) == CHOOSE y \in {F(x) : x \in {v}} : TRUE

(***************************************************************************)
(* Bit arithmetic on non-negative integers, n bits wide.                    *)
(***************************************************************************)
RECURSIVE Pow2(_)
Pow2(n) == IF n = 0 THEN 1 ELSE 2 * Pow2(n - 1)

BitAt(v, i) == (v \div Pow2(i)) % 2

RECURSIVE XorN(_, _, _)
XorN(a, b, n) ==
  IF n = 0 THEN 0
  ELSE (((a % 2) + (b % 2)) % 2) + 2 * XorN(a \div 2, b \div 2, n - 1)

RECURSIVE AndN(_, _, _)
AndN(a, b, n) ==
  IF n = 0 THEN 0
  ELSE ((a % 2) * (b % 2)) + 2 * AndN(a \div 2, b \div 2, n - 1)

(***************************************************************************)
(* Bit/Word codec.  Bits are 0/1, sequences are 1-based here where the      *)
(* code's arrays are 0-based.                                               *)
(***************************************************************************)
\* wordToBits(word, width): (word >> i) & 1 for i = width-1 .. 0; word is a
\* pair of 16-bit halves
WordBit(word, i) == IF i >= 16 THEN BitAt(word[1], i - 16) ELSE BitAt(word[2], i)

wordToBits(word, width) == [k \in 1..width |-> WordBit(word, width - k)] \o <<>>

\* bytesToBits(bytes): each byte MSB first
bytesToBits(bytes) ==
  [k \in 1..(8 * Len(bytes)) |-> BitAt(bytes[((k - 1) \div 8) + 1], 7 - ((k - 1) % 8))] \o <<>>

\* a bitsToByte that reads the first bit once more, as a ninth bit on top
bitsToByteWide(bits) ==
  256 * bits[1] + 128 * bits[1] + 64 * bits[2] + 32 * bits[3] + 16 * bits[4]
    + 8 * bits[5] + 4 * bits[6] + 2 * bits[7] + bits[8]

\* bitsToByte(bits): val = (val << 1) | (bits[i] & 1) for i = 0..7
bitsToByte(bits) ==
  128 * bits[1] + 64 * bits[2] + 32 * bits[3] + 16 * bits[4]
    + 8 * bits[5] + 4 * bits[6] + 2 * bits[7] + bits[8]

\* bitsToBytes(bits): for (i = 0; i + 7 < bits.length; i += 8); a trailing
\* partial byte is dropped
bitsToBytes(bits) ==
  [k \in 1..(Len(bits) \div 8) |-> bitsToByte(SubSeq(bits, 8 * (k - 1) + 1, 8 * k))] \o <<>>

\* bitsToWord(bits): MSB-first accumulation, then >>> 0.  Its callers pass the
\* 16 CRC bits, for which the 32-bit conversion changes nothing.
RECURSIVE bitsToWordAcc(_, _, _)
bitsToWordAcc(bits, i, val) ==
  IF i > Len(bits) THEN val
  ELSE bitsToWordAcc(bits, i + 1, 2 * val + bits[i])

bitsToWord(bits) == bitsToWordAcc(bits, 1, 0)

syncBits == wordToBits(SYNC_WORD, 32)

(***************************************************************************)
(* CRC-16 engine.                                                           *)
(***************************************************************************)
\* one iteration of the inner loop: test bit 15, shift, xor the polynomial,
\* mask to 16 bits
\* a shift that leaves the polynomial out
crcShiftNoPoly(crc) == (2 * crc) % 65536

crcShift(crc) ==
  IF crc >= 32768
    THEN XorN((2 * crc) % 65536, CRC_POLY, 16)
    ELSE (2 * crc) % 65536

crcByte(crc, b) ==
  crcShift(crcShift(crcShift(crcShift(
  crcShift(crcShift(crcShift(crcShift(XorN(crc, b * 256, 16)))))))))

\* The loops over a sequence are folded over the index range lo..hi by halves,
\* which keeps the evaluation depth logarithmic: the first half's result is
\* the value the second half starts from.
RECURSIVE crc16Range(_, _, _, _)
crc16Range(bytes, lo, hi, crc) ==
  IF lo > hi THEN crc
  ELSE IF lo = hi THEN crcByte(crc, bytes[lo])
  ELSE Let(crc16Range(bytes, lo, (lo + hi) \div 2, crc),
           LAMBDA left : crc16Range(bytes, ((lo + hi) \div 2) + 1, hi, left))

crc16(bytes) == crc16Range(bytes, 1, Len(bytes), CRC_INIT)

(***************************************************************************)
(* Convolutional code, rate 1/2, K = 7.                                     *)
(***************************************************************************)
\* parity(v): v ^= v >> 4; v ^= v >> 2; v ^= v >> 1; return v & 1
parity(v) ==
  LET v1 == XorN(v, v \div 16, 8)
      v2 == XorN(v1, v1 \div 4, 8)
      v3 == XorN(v2, v2 \div 2, 8)
  IN  v3 % 2

\* buildTransitions(): table[state][bit] = {next, o0, o1}
transitions ==
  [state \in 0..(NumStates - 1) |->
    [bit \in 0..1 |->
      LET reg == (2 * state + bit) % 128
      IN  [next |-> reg % 64,
           o0 |-> parity(AndN(reg, G0, 7)),
           o1 |-> parity(AndN(reg, G1, 7))]]]

\* an encoder step that emits the two parities in the other order
pushBitSwapped(acc, b) ==
  Let((2 * acc[1] + b) % 128,
      LAMBDA st : <<st, acc[2] \o <<parity(AndN(st, G1, 7)), parity(AndN(st, G0, 7))>>>>)

\* pushBit(b): state = ((state << 1) | (b & 1)) & 0x7f, then the two parities.
\* acc is <<state, out>>.
pushBit(acc, b) ==
  Let((2 * acc[1] + b) % 128,
      LAMBDA st : <<st, acc[2] \o <<parity(AndN(st, G0, 7)), parity(AndN(st, G1, 7))>>>>)

\* the loop over the bits, folded over the index range lo..hi by halves
RECURSIVE convEncodeRange(_, _, _, _)
convEncodeRange(bits, lo, hi, acc) ==
  IF lo > hi THEN acc
  ELSE IF lo = hi THEN pushBit(acc, bits[lo])
  ELSE Let(convEncodeRange(bits, lo, (lo + hi) \div 2, acc),
           LAMBDA left : convEncodeRange(bits, ((lo + hi) \div 2) + 1, hi, left))

\* convEncode(infoBits): pushBit for every info bit, then FLUSH_BITS zeros
convEncode(infoBits) ==
  Let(infoBits \o [i \in 1..FLUSH_BITS |-> 0],
      LAMBDA all : convEncodeRange(all, 1, Len(all), <<0, <<>>>>)[2])

(***************************************************************************)
(* Viterbi decoder.  metrics and dec are kept as sequences indexed by       *)
(* state + 1.  The code walks the states in ascending order and replaces a  *)
(* successor's metric only on a strictly smaller candidate; the two         *)
(* predecessors of successor n are n >> 1 (visited first) and (n >> 1) + 32.*)
(***************************************************************************)
\* a branch metric that rejects every branch whose output differs from the
\* received pair
vitCandExact(metrics, state, bit, r0, r1) ==
  LET base == metrics[state + 1]
      t == transitions[state][bit]
  IN  IF base >= INF \/ t.o0 # r0 \/ t.o1 # r1 THEN INF ELSE base

vitCand(metrics, state, bit, r0, r1) ==
  LET base == metrics[state + 1]
      t == transitions[state][bit]
  IN  IF base >= INF THEN INF
      ELSE base + (IF t.o0 # r0 THEN 1 ELSE 0) + (IF t.o1 # r1 THEN 1 ELSE 0)

\* one trellis step: <<nextMetrics[n], dec[n]>> for n = 0..63
vitStep(metrics, r0, r1) ==
  [k \in 1..NumStates |->
    LET n == k - 1
        bit == n % 2
        p0 == n \div 2
        p1 == p0 + 32
        c0 == vitCand(metrics, p0, bit, r0, r1)
        c1 == vitCand(metrics, p1, bit, r0, r1)
    IN  IF c1 < c0 THEN <<c1, 2 * p1 + bit>>
        ELSE IF c0 < INF THEN <<c0, 2 * p0 + bit>>
        ELSE <<INF, 0>>] \o <<>>

\* one iteration of the forward loop; acc is <<metrics, decisions>>
vitAdvance(acc, r0, r1) ==
  Let(vitStep(acc[1], r0, r1),
      LAMBDA st : <<[k \in 1..NumStates |-> st[k][1]] \o <<>>,
                    Append(acc[2], [k \in 1..NumStates |-> st[k][2]] \o <<>>)>>)

\* the forward loop over steps lo..hi, folded by halves
RECURSIVE vitForward(_, _, _, _)
vitForward(coded, lo, hi, acc) ==
  IF lo > hi THEN acc
  ELSE IF lo = hi THEN vitAdvance(acc, coded[2 * lo - 1], coded[2 * lo])
  ELSE Let(vitForward(coded, lo, (lo + hi) \div 2, acc),
           LAMBDA left : vitForward(coded, ((lo + hi) \div 2) + 1, hi, left))

\* bestState: the scan s = 1..63 replaces the best only on a strictly smaller
\* metric, so it ends on the lowest-indexed state of minimum metric
vitBest(metrics) ==
  CHOOSE s \in 0..(NumStates - 1) :
    /\ \A t \in 0..(NumStates - 1) : metrics[s + 1] <= metrics[t + 1]
    /\ \A t \in 0..(s - 1) : metrics[t + 1] > metrics[s + 1]

\* one iteration of the traceback; acc is <<bestState, bits>>
vitBack(decisions, i, acc) ==
  LET code == decisions[i][acc[1] + 1]
  IN  <<code \div 2, <<code % 2>> \o acc[2]>>

\* the traceback loop from step hi down to lo, folded by halves
RECURSIVE vitTrace(_, _, _, _)
vitTrace(decisions, lo, hi, acc) ==
  IF lo > hi THEN acc
  ELSE IF lo = hi THEN vitBack(decisions, lo, acc)
  ELSE Let(vitTrace(decisions, ((lo + hi) \div 2) + 1, hi, acc),
           LAMBDA right : vitTrace(decisions, lo, (lo + hi) \div 2, right))

\* metrics as initialised: 0 for state 0, INF for the others
vitStart == [k \in 1..NumStates |-> IF k = 1 THEN 0 ELSE INF] \o <<>>

viterbiDecode(codedBits) ==
  IF Len(codedBits) \div 2 < 1 THEN <<>>
  ELSE Let(vitForward(codedBits, 1, Len(codedBits) \div 2, <<vitStart, <<>>>>),
           LAMBDA fw : vitTrace(fw[2], 1, Len(fw[2]), <<vitBest(fw[1]), <<>>>>)[2])


(***************************************************************************)
(* Frame codec (sender side).                                               *)
(***************************************************************************)
\* buildPreambleBits(): i % 2 === 0 ? 1 : 0 for i = 0..PREAMBLE_BITS-1
\* a preamble made of the sync word's bits over and over
buildPreambleBitsLikeSync == [k \in 1..PREAMBLE_BITS |-> syncBits[((k - 1) % 32) + 1]] \o <<>>

buildPreambleBits == [k \in 1..PREAMBLE_BITS |-> k % 2] \o <<>>

\* the info bits of buildFrameBits: header, payload, CRC over header+payload
\* a frame body whose CRC is sent low byte first
frameInfoBitsCrcSwapped(payload) ==
  LET header == <<Len(payload) % 256, VERSION>>
      crc == crc16(header \o payload)
      crcBytes == <<crc % 256, (crc \div 256) % 256>>
  IN  bytesToBits(header) \o bytesToBits(payload) \o bytesToBits(crcBytes)

frameInfoBits(payload) ==
  LET header == <<Len(payload) % 256, VERSION>>
      crc == crc16(header \o payload)
      crcBytes == <<(crc \div 256) % 256, crc % 256>>
  IN  bytesToBits(header) \o bytesToBits(payload) \o bytesToBits(crcBytes)

\* a frame whose sync word goes through the FEC encoder with the body
buildFrameBitsCodedSync(payload, withFEC) ==
  buildPreambleBits
    \o (IF withFEC THEN convEncode(wordToBits(SYNC_WORD, 32) \o frameInfoBits(payload))
                   ELSE wordToBits(SYNC_WORD, 32) \o frameInfoBits(payload))

\* buildFrameBits(text, withFEC) for a payload of at most 255 bytes (a longer
\* one throws before any bit is produced)
buildFrameBits(payload, withFEC) ==
  buildPreambleBits \o wordToBits(SYNC_WORD, 32)
    \o (IF withFEC THEN convEncode(frameInfoBits(payload)) ELSE frameInfoBits(payload))

\* TextEncoder.encode on one code point below U+10000 (no surrogates): its
\* UTF-8 bytes
utf8(cp) ==
  IF cp < 128 THEN <<cp>>
  ELSE IF cp < 2048 THEN <<192 + (cp \div 64), 128 + (cp % 64)>>
  ELSE <<224 + (cp \div 4096), 128 + ((cp \div 64) % 64), 128 + (cp % 64)>>

\* encoder.encode(text), text a sequence of code points, folded by halves
RECURSIVE encodeRange(_, _, _)
encodeRange(text, lo, hi) ==
  IF lo > hi THEN <<>>
  ELSE IF lo = hi THEN utf8(text[lo])
  ELSE encodeRange(text, lo, (lo + hi) \div 2) \o encodeRange(text, ((lo + hi) \div 2) + 1, hi)

encode(text) == encodeRange(text, 1, Len(text))

\* what a call buildFrameBits(text, withFEC) ends in, given the payload
\* bytes: the error thrown, or the bits returned
frameOrThrow(payload, tooLong, withFEC) ==
  IF tooLong
    THEN [error |-> TRUE, bytes |-> Len(payload), payload |-> payload, bits |-> <<>>]
    ELSE [error |-> FALSE, bytes |-> Len(payload), payload |-> payload,
          bits |-> buildFrameBits(payload, withFEC)]

\* a length check that counts the characters of the text
buildFrameBitsOfCountingChars(text, withFEC) ==
  Let(encode(text),
      LAMBDA payload : frameOrThrow(payload, Len(text) > MaxPayloadBytes, withFEC))

\* buildFrameBits(text, withFEC) from the text on: encode, then throw if the
\* payload is longer than 255 bytes
buildFrameBitsOf(text, withFEC) ==
  Let(encode(text),
      LAMBDA payload : frameOrThrow(payload, Len(payload) > MaxPayloadBytes, withFEC))

\* TextDecoder.decode on the payload bytes: an ASCII byte is its own
\* character; any other byte is shown as U+FFFD here
safeDecode(arr) == [k \in 1..Len(arr) |-> IF arr[k] < 128 THEN arr[k] ELSE 65533] \o <<>>

(***************************************************************************)
(* Frame synchronizer (receiver side).                                      *)
(***************************************************************************)
\* findSync(buf, pattern): the first index i (0-based) at which pattern
\* occurs in buf, or -1
\* a search that returns the last occurrence
findSyncLast(buf, pattern) ==
  LET hits == {i \in 0..(Len(buf) - Len(pattern)) :
                 \A j \in 1..Len(pattern) : buf[i + j] = pattern[j]}
  IN  IF Len(buf) < Len(pattern) \/ hits = {} THEN -1
      ELSE CHOOSE i \in hits : \A h \in hits : i >= h

findSync(buf, pattern) ==
  LET hits == {i \in 0..(Len(buf) - Len(pattern)) :
                 \A j \in 1..Len(pattern) : buf[i + j] = pattern[j]}
  IN  IF Len(buf) < Len(pattern) \/ hits = {} THEN -1
      ELSE CHOOSE i \in hits : \A h \in hits : i <= h

\* buf.slice(-n)
sliceLast(buf, n) == IF Len(buf) <= n THEN buf ELSE SubSeq(buf, Len(buf) - n + 1, Len(buf))

\* buf.slice(from) with a 0-based from
sliceFrom(buf, from) == SubSeq(buf, from + 1, Len(buf))


(***************************************************************************)
(* State.                                                                   *)
(*  app.js:    useFEC, listening, demodNode, bitBuffer, codedBuffer, synced *)
(*  outputs:   events (addRx / CRC error / bad length, in order) and        *)
(*             resetsPosted (reset commands posted to the demodulator)      *)
(*  channel:   feed (the bit segments still to arrive), inflight ('bits'    *)
(*             messages still queued when listening stopped)                *)
(*  history:   scn (what the sender put on the channel), fed (bits handed   *)
(*             to handleBits so far), heard (the bits handled since the     *)
(*             search for the sync word last                                *)
(*             started), trimmedAt (value of fed when the search buffer was *)
(*             last cut down), sessions (listening sessions started)        *)
(*  page:      configsPosted (config messages posted to the demodulator),   *)
(*             uiChanges (settings changes made while the page is open),    *)
(*             tx (the audio context, the buffers created and sources       *)
(*             started by playFrame, and what its calls did),               *)
(*             codec (a bit sequence taken through convEncode, the channel  *)
(*             and viterbiDecode),                                          *)
(*             settings (carrierHz, symbolRate, lpfFactor, lockThreshold,   *)
(*             what the settings inputs show, the last config message       *)
(*             posted, and the entries the user may yet make)               *)
(***************************************************************************)
VARIABLES useFEC, listening, demodNode, bitBuffer, codedBuffer, synced,
          events, resetsPosted, feed, inflight, scn, fed, heard,
          trimmedAt, sessions, configsPosted, uiChanges, tx, codec, settings,
          rxState, rxOut, rxIn

\* the byte-oriented receiver: rxState as in the source, rxOut the reports
\* made (rxLog / 'CRC Fail'), rxIn the bit stream it is given and how many
\* bits of it have been ingested
variantVars == <<rxState, rxOut, rxIn>>

pageVars == <<configsPosted, uiChanges, tx, codec, settings, variantVars>>

syncVars == <<useFEC, listening, demodNode, bitBuffer, codedBuffer, synced,
              events, resetsPosted, feed, inflight, scn, fed, heard,
              trimmedAt, sessions, pageVars>>

\* the synchronizer's own state, as one record
SyncRec ==
  [bitBuffer |-> bitBuffer, codedBuffer |-> codedBuffer, synced |-> synced,
   events |-> events, resets |-> resetsPosted]

\* one report to the user: "frame" is addRx(text) with its log line,
\* "crcError" and "invalidLength" are the two failure log lines; data are the
\* header and payload bytes the CRC was computed over
Event(type, text, len, flags, data, calc, recv) ==
  [type |-> type, text |-> text, len |-> len, flags |-> flags, data |-> data,
   calc |-> calc, recv |-> recv]

\* a resetAfterFrame that forgets the demodulator
resetAfterFrameSilent(s, demod) ==
  [s EXCEPT !.synced = FALSE, !.bitBuffer = <<>>, !.codedBuffer = <<>>]

\* resetAfterFrame(): demod says whether demodNode is set
resetAfterFrame(s, demod) ==
  [s EXCEPT !.synced = FALSE, !.bitBuffer = <<>>, !.codedBuffer = <<>>,
            !.resets = IF demod THEN @ + 1 ELSE @]

\* a comparison that accepts every CRC
crcIgnored(recvCrc, calc) == TRUE

\* if (recvCrc === calc)
crcMatches(recvCrc, calc) == recvCrc = calc

\* the tail both decoders share: CRC over the header+payload bytes, then
\* addRx(text) on a match and the CRC error report otherwise
crcVerdict(len, flags, dataBytes, payloadBits, recvCrc, calc) ==
  IF crcMatches(recvCrc, calc)
    THEN Event("frame", safeDecode(bitsToBytes(payloadBits)), len, flags, dataBytes, calc, recvCrc)
    ELSE Event("crcError", <<>>, len, flags, dataBytes, calc, recvCrc)

frameOutcome(len, flags, dataBits, payloadBits, crcBits) ==
  Let(bitsToBytes(dataBits),
      LAMBDA dataBytes :
        Let(crc16(dataBytes),
            LAMBDA calc : crcVerdict(len, flags, dataBytes, payloadBits,
                                     bitsToWord(crcBits), calc)))

\* a frame size that forgets the CRC field
neededInfoBitsNoCrc(len) == 16 + len * 8

\* a frame size that counts every payload byte twice
neededInfoBitsDouble(len) == 16 + len * 16 + 16

\* need = 16 + len * 8 + 16
neededInfoBits(len) == 16 + len * 8 + 16

\* the "Invalid length" branch: log, then resetAfterFrame()
invalidLength(s, demod, len, flags) ==
  resetAfterFrame(
    [s EXCEPT !.events = Append(@, Event("invalidLength", <<>>, len, flags, <<>>, 0, 0))],
    demod)

\* the end of both decoders on a complete frame: info are the frame's
\* decoded bits; report the outcome, then resetAfterFrame()
finishFrame(s, demod, len, flags, info) ==
  resetAfterFrame(
    [s EXCEPT !.events = Append(@,
        frameOutcome(len, flags,
                     SubSeq(info, 1, 16 + len * 8),
                     SubSeq(info, 17, 16 + len * 8),
                     SubSeq(info, 16 + len * 8 + 1, neededInfoBits(len))))],
    demod)

\* tryDecodePlain() once the header is in the buffer
decodePlainBody(s, demod, len, flags) ==
  IF len > MaxPayloadBytes THEN invalidLength(s, demod, len, flags)
  ELSE IF Len(s.bitBuffer) < neededInfoBits(len) THEN s
  ELSE finishFrame(s, demod, len, flags, s.bitBuffer)

\* tryDecodePlain()
tryDecodePlain(s, demod) ==
  IF ~s.synced THEN s
  ELSE IF Len(s.bitBuffer) < 16 THEN s
  ELSE Let(bitsToByte(SubSeq(s.bitBuffer, 1, 8)),
           LAMBDA len : decodePlainBody(s, demod, len, bitsToByte(SubSeq(s.bitBuffer, 9, 16))))

\* tryDecodeFrame() after the second Viterbi pass gave decoded
decodeFecFrame(s, demod, len, flags, decoded) ==
  IF Len(decoded) = 0 \/ Len(decoded) < neededInfoBits(len) + FLUSH_BITS THEN s
  ELSE finishFrame([s EXCEPT !.codedBuffer = <<>>], demod, len, flags, decoded)

\* tryDecodeFrame() once the first Viterbi pass gave the header
decodeFecBody(s, demod, len, flags) ==
  IF len > MaxPayloadBytes THEN invalidLength(s, demod, len, flags)
  ELSE IF Len(s.codedBuffer) < 2 * (neededInfoBits(len) + FLUSH_BITS) THEN s
  ELSE Let(viterbiDecode(SubSeq(s.codedBuffer, 1, 2 * (neededInfoBits(len) + FLUSH_BITS))),
           LAMBDA decoded : decodeFecFrame(s, demod, len, flags, decoded))

\* tryDecodeFrame() after the first Viterbi pass gave decodedSoft
decodeFecHeader(s, demod, decodedSoft) ==
  IF Len(decodedSoft) = 0 THEN s
  ELSE IF Len(decodedSoft) <= FLUSH_BITS THEN s
  ELSE IF Len(decodedSoft) - FLUSH_BITS < 16 THEN s
  ELSE Let(bitsToByte(SubSeq(decodedSoft, 1, 8)),
           LAMBDA len : decodeFecBody(s, demod, len, bitsToByte(SubSeq(decodedSoft, 9, 16))))

\* tryDecodeFrame(): a first Viterbi pass over the whole coded buffer reads
\* the length, a second pass over the first neededCoded bits gives the frame
tryDecodeFrame(s, demod) ==
  IF Len(s.codedBuffer) < 2 * ((16 + 16) + FLUSH_BITS) THEN s
  ELSE Let(viterbiDecode(s.codedBuffer),
           LAMBDA decodedSoft : decodeFecHeader(s, demod, decodedSoft))

\* a trim that keeps one byte only
trimToByte(buf) == IF Len(buf) > SyncCap THEN sliceLast(buf, 8) ELSE buf

\* no trim at all
trimNever(buf) == buf

trimUnsynced(buf) == IF Len(buf) > SyncCap THEN sliceLast(buf, SyncKeep) ELSE buf

\* handleBitsFec(bits), unsynced branch: pushed already holds the new bits,
\* idx is what findSync returned
searchFec(pushed, idx) ==
  IF idx # -1
    THEN [pushed EXCEPT !.codedBuffer = sliceFrom(pushed.bitBuffer, idx + Len(syncBits)),
                        !.bitBuffer = <<>>,
                        !.synced = TRUE]
    ELSE [pushed EXCEPT !.bitBuffer = trimUnsynced(@)]

\* handleBitsFec(bits)
handleBitsFec(s, bits, demod) ==
  IF ~s.synced
    THEN Let([s EXCEPT !.bitBuffer = @ \o bits],
             LAMBDA pushed : Let(findSync(pushed.bitBuffer, syncBits),
                                 LAMBDA idx : searchFec(pushed, idx)))
    ELSE tryDecodeFrame([s EXCEPT !.bitBuffer = @ \o bits, !.codedBuffer = @ \o bits], demod)

\* handleBitsPlain(bits), unsynced branch
searchPlain(pushed, idx) ==
  IF idx # -1
    THEN [pushed EXCEPT !.bitBuffer = sliceFrom(pushed.bitBuffer, idx + Len(syncBits)),
                        !.synced = TRUE]
    ELSE [pushed EXCEPT !.bitBuffer = trimUnsynced(@)]

\* handleBitsPlain(bits)
handleBitsPlain(s, bits, demod) ==
  IF ~s.synced
    THEN Let([s EXCEPT !.bitBuffer = @ \o bits],
             LAMBDA pushed : Let(findSync(pushed.bitBuffer, syncBits),
                                 LAMBDA idx : searchPlain(pushed, idx)))
    ELSE tryDecodePlain([s EXCEPT !.bitBuffer = @ \o bits], demod)

\* handleBits(bits)
handleBits(s, bits, fec, demod) ==
  IF Len(bits) = 0 THEN s
  ELSE IF fec THEN handleBitsFec(s, bits, demod)
  ELSE handleBitsPlain(s, bits, demod)


(***************************************************************************)
(* The channel: what the sender transmits and how the demodulator's 'bits'  *)
(* messages cut the stream into batches.                                    *)
(***************************************************************************)
MaxPayloadLen == 2     \* payload lengths of the short scenarios: 0..MaxPayloadLen
LongPayloadLen == MaxPayloadBytes  \* the longest payload buildFrameBits accepts
BatchSmall == 32       \* a short 'bits' message
BatchLarge == 4 * BatchSmall   \* a long 'bits' message
BulkLen == 1000        \* batch size of the long-frame scenarios
NoiseLen == 2008       \* length of one batch of idle-channel bits
TailLen == 8           \* idle bits that follow the last frame
FlipAt == 17           \* first corrupted bit, counted from the bit after the sync word
BurstLen == 10         \* length of an error burst
CutKeep == 24          \* bits after the sync word that survive a cut transmission
MaxInflight == 1       \* 'bits' messages still queued when listening stops
MaxSessions == 2       \* listening sessions
MaxUiChanges == 1      \* settings changes

Min(a, b) == IF a < b THEN a ELSE b

\* the text the sender types: "h", "hi", "hij", ... (printable ASCII)
Payload(n) == [i \in 1..n |-> 32 + ((71 + i) % 95)] \o <<>>

SyncEnd == PREAMBLE_BITS + Len(syncBits)

flipRange(bits, from, count) ==
  [k \in 1..Len(bits) |-> IF k >= from /\ k < from + count THEN 1 - bits[k] ELSE bits[k]] \o <<>>

\* what the channel does to one transmitted frame
Corrupt(bits, corr) ==
  CASE corr = "clean" -> bits
    [] corr = "flip"  -> flipRange(bits, SyncEnd + FlipAt, 1)
    [] corr = "burst" -> flipRange(bits, SyncEnd + FlipAt, BurstLen)
    [] corr = "cut"   -> SubSeq(bits, 1, Min(Len(bits), SyncEnd + CutKeep))

Zeros(n) == [k \in 1..n |-> 0] \o <<>>

Fine(bits) == [bits |-> bits, bulk |-> FALSE]
Bulk(bits) == [bits |-> bits, bulk |-> TRUE]

RECURSIVE Chunks(_, _)
Chunks(bits, n) ==
  IF Len(bits) <= n THEN <<Bulk(bits)>>
  ELSE <<Bulk(SubSeq(bits, 1, n))>> \o Chunks(SubSeq(bits, n + 1, Len(bits)), n)

TxFrame(sc) == buildFrameBits(Payload(sc.len), sc.fec)

\* a frame whose length byte went out with one bit inverted: the most
\* significant bit (the first on the wire) or the least significant (the 8th)
HeadFlipAt(corr) == IF corr = "msb" THEN 1 ELSE 8

TxWrongLength(sc) ==
  Let(flipRange(frameInfoBits(Payload(sc.len)), HeadFlipAt(sc.corr), 1),
      LAMBDA info : buildPreambleBits \o syncBits
                      \o (IF sc.fec THEN convEncode(info) ELSE info))

\* the segments a scenario puts on the channel
Segs(sc) ==
  CASE sc.shape = "pair"   -> <<Fine(Corrupt(TxFrame(sc), sc.corr)), Fine(TxFrame(sc)), Bulk(Zeros(TailLen))>>
    [] sc.shape = "single" -> <<Fine(Corrupt(TxFrame(sc), sc.corr)), Bulk(Zeros(TailLen))>>
    [] sc.shape = "bare"   -> <<Fine(SubSeq(TxFrame(sc), PREAMBLE_BITS + 1, Len(TxFrame(sc))))>>
    [] sc.shape = "noise"  -> <<Bulk(Zeros(NoiseLen)), Bulk(Zeros(NoiseLen)), Fine(TxFrame(sc))>>
    [] sc.shape = "stall"  -> <<Fine(Corrupt(TxFrame(sc), "cut")), Bulk(Zeros(NoiseLen)),
                                Bulk(Zeros(NoiseLen)), Bulk(Zeros(NoiseLen))>>
    [] sc.shape = "head"   -> <<Fine(TxWrongLength(sc)),
                                Fine(buildFrameBits(Payload(sc.len), sc.fec)),
                                Bulk(Zeros(TailLen))>>
    [] sc.shape = "echo"   -> <<Fine(buildFrameBits(bitsToBytes(syncBits), sc.fec)),
                                Bulk(Zeros(TailLen))>>
    [] sc.shape = "long"   -> IF sc.fec THEN Chunks(Corrupt(TxFrame(sc), sc.corr), BulkLen)
                              ELSE <<Fine(Corrupt(TxFrame(sc), sc.corr))>>

Scn(shape, fec, len, corr) == [shape |-> shape, fec |-> fec, len |-> len, corr |-> corr]

CorrKinds == {"clean", "flip", "burst", "cut"}

\* payload lengths of the short scenarios: every length without FEC, the
\* two extremes with it
ShortLens(fec) == IF fec THEN {0, MaxPayloadLen} ELSE 0..MaxPayloadLen

ShortScenarios ==
  {Scn("pair", FALSE, n, c) : n \in ShortLens(FALSE), c \in CorrKinds}
    \cup {Scn("pair", TRUE, n, c) : n \in ShortLens(TRUE), c \in CorrKinds}
    \cup {Scn("bare", FALSE, n, "clean") : n \in ShortLens(FALSE)}
    \cup {Scn("bare", TRUE, n, "clean") : n \in ShortLens(TRUE)}

LongScenarios ==
  {Scn("noise", FALSE, n, "clean") : n \in ShortLens(FALSE)}
    \cup {Scn("noise", TRUE, n, "clean") : n \in ShortLens(TRUE)}
    \cup {Scn("long", FALSE, LongPayloadLen, c) : c \in {"clean", "flip"}}
    \cup {Scn("long", TRUE, LongPayloadLen, "clean")}
    \cup {Scn("stall", f, LongPayloadLen, "cut") : f \in BOOLEAN}

SessionScenarios ==
  {Scn("single", f, 0, c) : f \in BOOLEAN, c \in {"clean", "flip"}}

RECURSIVE FineAvail(_)
FineAvail(fd) ==
  IF fd = <<>> \/ fd[1].bulk THEN 0 ELSE Len(fd[1].bits) + FineAvail(Tail(fd))

\* the sizes the next 'bits' message can have
BatchSizes(fd) ==
  IF fd[1].bulk THEN {Len(fd[1].bits)}
  ELSE {Min(BatchSmall, FineAvail(fd)), Min(BatchLarge, FineAvail(fd)), Len(fd[1].bits)}

RECURSIVE TakeBits(_, _)
TakeBits(fd, n) ==
  IF n = 0 \/ fd = <<>> THEN <<>>
  ELSE IF Len(fd[1].bits) >= n THEN SubSeq(fd[1].bits, 1, n)
  ELSE fd[1].bits \o TakeBits(Tail(fd), n - Len(fd[1].bits))

RECURSIVE DropBits(_, _)
DropBits(fd, n) ==
  IF fd = <<>> THEN <<>>
  ELSE IF Len(fd[1].bits) > n
    THEN <<[fd[1] EXCEPT !.bits = SubSeq(@, n + 1, Len(@))]>> \o Tail(fd)
  ELSE DropBits(Tail(fd), n - Len(fd[1].bits))


(***************************************************************************)
(* The demodulator (demod-worklet.js), from the symbol decision onwards.    *)
(* A symbol enters as its hard decision, bit = val >= 0 ? 0 : 1.  The lock  *)
(* threshold is held in hundredths and the correlation as the sum of the    *)
(* 80 products, so corr > t is 100 * sum > 80 * t.                          *)
(*  signBuf, lockedFlag, holdoff, pllReport, outBits: fields of the         *)
(*  processor; lockThreshold, holdoffSymbols: its configuration;            *)
(*  demodOut: the messages the last call posted to the page; lastSyms: for   *)
(*  every symbol the last call handled, what was decided and how;           *)
(*  tape: the symbols and commands still to arrive;                         *)
(*  dsp: the carrier, rate and filter settings, the parameters derived from *)
(*  them and the state of the sample loop; lastCfg: the last config message *)
(*  handled and what it found                                               *)
(***************************************************************************)
VARIABLES signBuf, lockedFlag, holdoff, pllReport, outBits, lockThreshold,
          holdoffSymbols, demodOut, lastSyms, tape, dsp, lastCfg

demodVars == <<signBuf, lockedFlag, holdoff, pllReport, outBits, lockThreshold,
               holdoffSymbols, demodOut, lastSyms, tape, dsp, lastCfg>>

preambleSymbols == 80
DefaultLockThreshold == 30     \* this.lockThreshold = 0.3
DefaultHoldoffSymbols == 40
PllReportSymbols == 400

DefaultFc == 18000             \* this.fc = 18_000
DefaultSymbolRate == 500       \* this.symbolRate = 500
DefaultLpfFactor == 20         \* this.lpfFactor = 2.0, in tenths
ConstructorCutoff == 1000      \* this.calcAlpha(1000)
MinCutoff == 150               \* Math.max(150, ...)
MinTaps == 8                   \* Math.max(8, ...)
SampleRate == 48000            \* the audio context's sampleRate

Max(a, b) == IF a > b THEN a ELSE b

\* Math.round(a / b) for positive a and b
RoundDiv(a, b) == (2 * a + b) \div (2 * b)

\* The sample loop works on floating-point values.  A value of it is kept as
\* what it was last set to: "zero", "initial" (env = 1e-3) or "running", any
\* value the loop has moved it to.  ncoStep is kept in units of
\* 2 * PI / sampleRate, the cutoff behind lpAlpha in tenths of a hertz, and
\* spsFloat as the fraction <<sampleRate, symbolRate>>.
\* the part of reset() that concerns the sample loop
resetDsp(p) ==
  [p EXCEPT !.phase = "zero", !.freqCorr = "zero", !.lpI = "zero", !.lpQ = "zero",
            !.env = "initial", !.mfBufZero = TRUE, !.mfPos = "zero", !.timeAcc = "zero"]

\* buildRaisedCosine(spsFloat).length
tapsLength(rate) == Max(MinTaps, RoundDiv(3 * SampleRate, 2 * rate))

\* the settings of applyConfig(cfg) and the parameters it derives from them;
\* a field of cfg is -1 where the message carries no number for it
configureDsp(p, cfg) ==
  Let([p EXCEPT !.fc = IF cfg.fc >= 0 THEN cfg.fc ELSE @,
                !.symbolRate = IF cfg.sr > 0 THEN cfg.sr ELSE @,
                !.lpfFactor = IF cfg.lpf > 0 THEN cfg.lpf ELSE @],
      LAMBDA q : [q EXCEPT !.spsFloat = <<SampleRate, q.symbolRate>>,
                           !.sps = Max(1, RoundDiv(SampleRate, q.symbolRate)),
                           !.ncoStep = q.fc,
                           !.lpCutoff = Max(10 * MinCutoff, q.symbolRate * q.lpfFactor),
                           !.tapsLen = tapsLength(q.symbolRate),
                           !.mfBufLen = tapsLength(q.symbolRate),
                           !.mfBufZero = TRUE])

\* the processor's sample-loop fields as the constructor leaves them
constructedDsp ==
  [fc |-> DefaultFc, symbolRate |-> DefaultSymbolRate, lpfFactor |-> DefaultLpfFactor,
   spsFloat |-> <<SampleRate, DefaultSymbolRate>>,
   sps |-> Max(1, RoundDiv(SampleRate, DefaultSymbolRate)),
   ncoStep |-> DefaultFc,
   lpCutoff |-> 10 * ConstructorCutoff,
   tapsLen |-> tapsLength(DefaultSymbolRate),
   mfBufLen |-> tapsLength(DefaultSymbolRate),
   mfBufZero |-> TRUE, mfPos |-> "zero",
   phase |-> "zero", freqCorr |-> "zero", lpI |-> "zero", lpQ |-> "zero",
   env |-> "initial", timeAcc |-> "zero"]

\* what the sample loop of process() leaves behind after a block of samples
processDsp(p) ==
  [p EXCEPT !.phase = "running", !.freqCorr = "running", !.lpI = "running",
            !.lpQ = "running", !.env = "running", !.timeAcc = "running",
            !.mfBufZero = FALSE, !.mfPos = "running"]

\* altSeq[i] for the 1-based position i: +1, -1, +1, ...
altSeq(i) == IF i % 2 = 1 THEN 1 ELSE -1

RECURSIVE corrRange(_, _, _)
corrRange(buf, lo, hi) ==
  IF lo > hi THEN 0
  ELSE IF lo = hi THEN buf[lo] * altSeq(lo)
  ELSE corrRange(buf, lo, (lo + hi) \div 2) + corrRange(buf, ((lo + hi) \div 2) + 1, hi)

\* the sum of signBuf[i] * altSeq[i]; corr is this sum / preambleSymbols
corrSum(buf) == corrRange(buf, 1, Len(buf))

DemodRec ==
  [signBuf |-> signBuf, lockedFlag |-> lockedFlag, holdoff |-> holdoff,
   pllReport |-> pllReport, outBits |-> outBits, lockThreshold |-> lockThreshold,
   holdoffSymbols |-> holdoffSymbols, msgs |-> <<>>, dsp |-> dsp]

\* a handleSymbol that forwards a bit only while locked with the holdoff over
handleSymbolGated(d, bit) ==
  LET pushed == Append(d.signBuf, IF bit = 0 THEN 1 ELSE -1)
      buf == IF Len(pushed) > preambleSymbols THEN Tail(pushed) ELSE pushed
      full == Len(buf) = preambleSymbols
      sum == corrSum(buf)
      lockNow == full /\ 100 * sum > preambleSymbols * d.lockThreshold /\ ~d.lockedFlag
      locked == IF lockNow THEN TRUE
                ELSE IF full /\ 200 * sum < preambleSymbols * d.lockThreshold THEN FALSE
                ELSE d.lockedFlag
      hold == IF lockNow THEN d.holdoffSymbols ELSE d.holdoff
      d1 == [d EXCEPT !.signBuf = buf, !.lockedFlag = locked]
  IN  IF locked /\ hold > 0 THEN [d1 EXCEPT !.holdoff = hold - 1]
      ELSE IF locked THEN [d1 EXCEPT !.holdoff = hold, !.outBits = Append(@, bit)]
      ELSE [d1 EXCEPT !.holdoff = hold]

\* a handleSymbol that also locks when the correlation equals the threshold
handleSymbolLax(d, bit) ==
  LET pushed == Append(d.signBuf, IF bit = 0 THEN 1 ELSE -1)
      buf == IF Len(pushed) > preambleSymbols THEN Tail(pushed) ELSE pushed
      full == Len(buf) = preambleSymbols
      sum == corrSum(buf)
      lockNow == full /\ 100 * sum >= preambleSymbols * d.lockThreshold /\ ~d.lockedFlag
      locked == IF lockNow THEN TRUE
                ELSE IF full /\ 200 * sum < preambleSymbols * d.lockThreshold THEN FALSE
                ELSE d.lockedFlag
      hold == IF lockNow THEN d.holdoffSymbols ELSE d.holdoff
      pll == IF lockNow THEN PllReportSymbols ELSE d.pllReport
      pllDue == locked /\ pll <= 0
      d1 == [d EXCEPT !.signBuf = buf,
                      !.lockedFlag = locked,
                      !.pllReport = IF ~locked THEN pll
                                    ELSE IF pllDue THEN PllReportSymbols ELSE pll - 1,
                      !.msgs = @ \o (IF lockNow THEN <<[type |-> "locked", score |-> sum]>> ELSE <<>>)
                                 \o (IF pllDue THEN <<[type |-> "pll"]>> ELSE <<>>)]
  IN  IF locked /\ hold > 0
        THEN [d1 EXCEPT !.holdoff = hold - 1]
        ELSE [d1 EXCEPT !.holdoff = hold, !.outBits = Append(@, bit)]

\* handleSymbol(val), val given by its hard decision
handleSymbol(d, bit) ==
  LET pushed == Append(d.signBuf, IF bit = 0 THEN 1 ELSE -1)
      buf == IF Len(pushed) > preambleSymbols THEN Tail(pushed) ELSE pushed
      full == Len(buf) = preambleSymbols
      sum == corrSum(buf)
      lockNow == full /\ 100 * sum > preambleSymbols * d.lockThreshold /\ ~d.lockedFlag
      locked == IF lockNow THEN TRUE
                ELSE IF full /\ 200 * sum < preambleSymbols * d.lockThreshold THEN FALSE
                ELSE d.lockedFlag
      hold == IF lockNow THEN d.holdoffSymbols ELSE d.holdoff
      pll == IF lockNow THEN PllReportSymbols ELSE d.pllReport
      pllDue == locked /\ pll <= 0
      d1 == [d EXCEPT !.signBuf = buf,
                      !.lockedFlag = locked,
                      !.pllReport = IF ~locked THEN pll
                                    ELSE IF pllDue THEN PllReportSymbols ELSE pll - 1,
                      !.msgs = @ \o (IF lockNow THEN <<[type |-> "locked", score |-> sum]>> ELSE <<>>)
                                 \o (IF pllDue THEN <<[type |-> "pll"]>> ELSE <<>>)]
  IN  IF locked /\ hold > 0
        THEN [d1 EXCEPT !.holdoff = hold - 1]
        ELSE [d1 EXCEPT !.holdoff = hold, !.outBits = Append(@, bit)]

\* reset(), for the fields kept here
reset(d) ==
  [d EXCEPT !.outBits = <<>>, !.signBuf = <<>>, !.lockedFlag = FALSE,
            !.holdoff = 0, !.pllReport = 0, !.dsp = resetDsp(@)]

\* an applyConfig that stores the settings and derives the parameters but
\* leaves the running state alone
applyConfigKeep(d, cfg) ==
  [d EXCEPT !.lockThreshold = IF cfg.th >= 0 THEN cfg.th ELSE @,
            !.holdoffSymbols = IF cfg.hs >= 0 THEN cfg.hs ELSE @,
            !.dsp = configureDsp(@, cfg)]

\* applyConfig(cfg): cfg.th and cfg.hs are -1 where the message carries no
\* number for them
applyConfig(d, cfg) ==
  reset([d EXCEPT !.lockThreshold = IF cfg.th >= 0 THEN cfg.th ELSE @,
                  !.holdoffSymbols = IF cfg.hs >= 0 THEN cfg.hs ELSE @,
                  !.dsp = configureDsp(@, cfg)])

\* what one symbol of a block did: the bit decided, the lock state the gate
\* saw, the holdoff the gate saw, and whether the bit went into outBits;
\* was is the lock state the symbol found, full and sum describe the sign
\* window after the symbol was pushed, and said counts the 'locked' messages
\* the symbol posted
SymTrace(before, after, bit) ==
  [bit |-> bit,
   locked |-> after.lockedFlag,
   holdoff |-> IF ~before.lockedFlag /\ after.lockedFlag THEN after.holdoffSymbols
               ELSE before.holdoff,
   pushed |-> Len(after.outBits) = Len(before.outBits) + 1,
   was |-> before.lockedFlag,
   full |-> Len(after.signBuf) = preambleSymbols,
   sum |-> corrSum(after.signBuf),
   left |-> after.holdoff,
   said |-> Cardinality({k \in (Len(before.msgs) + 1)..Len(after.msgs) :
                          after.msgs[k].type = "locked"})]

\* the symbol loop of process(): acc = <<processor, traces>>
RECURSIVE runSymbols(_, _)
runSymbols(acc, bits) ==
  IF bits = <<>> THEN acc
  ELSE LET after == handleSymbol(acc[1], Head(bits))
       IN  runSymbols(<<after, Append(acc[2], SymTrace(acc[1], after, Head(bits)))>>, Tail(bits))

MaxSymbolsPerBlock == 2   \* symbols one 128-sample block can complete
DemodLead == 80           \* idle symbols heard before a transmission
DemodRearm == 100         \* symbols heard after the reset command
HoldoffShort == 2         \* a configured holdoff shorter than the default

\* an item of the tape: a symbol, a reset command or a config message with
\* its carrierHz, symbolRate, lpfFactor (in tenths), preambleSymbols,
\* lockThreshold (in hundredths) and holdoffSymbols, -1 for a field it lacks
Item(op, b, fc, sr, lpf, pre, th, hs) ==
  [op |-> op, bit |-> b, fc |-> fc, sr |-> sr, lpf |-> lpf, pre |-> pre,
   th |-> th, hs |-> hs]

Sym(b) == Item("sym", b, -1, -1, -1, -1, -1, -1)
ResetCmd == Item("reset", 0, -1, -1, -1, -1, -1, -1)
ConfigCmd(th, hs) == Item("config", 0, -1, -1, -1, -1, th, hs)
NoCmd == Item("none", 0, -1, -1, -1, -1, -1, -1)

SymItems(bits) == [i \in 1..Len(bits) |-> Sym(bits[i])] \o <<>>

\* the config messages tried: the page's (a threshold, no holdoff) and two
\* that also set the holdoff
DemodConfigs ==
  {ConfigCmd(60, -1), ConfigCmd(30, 0), ConfigCmd(5, HoldoffShort)}

\* what the demodulator hears: idle symbols, one frame, a reset, and the
\* start of the frame again
HeardSymbols(lead) ==
  SymItems(Zeros(lead) \o buildFrameBits(Payload(0), FALSE))
    \o <<ResetCmd>>
    \o SymItems(SubSeq(buildFrameBits(Payload(0), FALSE), 1, DemodRearm))

DemodTapes ==
  {HeardSymbols(lead) : lead \in {0, DemodLead}}
    \cup {<<c>> \o HeardSymbols(lead) : c \in DemodConfigs, lead \in {0, DemodLead}}

CmdAfter == 81          \* symbols heard before a command that interrupts a frame
AltFc == 15000          \* a carrier other than the default
AltSymbolRate == 1000   \* a symbol rate other than the default
AltLpfFactor == 30      \* a low-pass factor other than the default, in tenths
AltPreamble == 40       \* a preamble length other than the default

\* the config message the page posts: carrierHz, symbolRate, lpfFactor,
\* lockThreshold
PageConfig(fc, sr, lpf, th) == Item("config", 0, fc, sr, lpf, -1, th, -1)

\* a config message that carries every setting, the preamble length included
FullConfig == Item("config", 0, AltFc, AltSymbolRate, AltLpfFactor, AltPreamble, 60, HoldoffShort)

\* commands that arrive while a frame is being heard
MidCommands ==
  {ResetCmd, PageConfig(AltFc, AltSymbolRate, AltLpfFactor, DefaultLockThreshold), FullConfig}

\* a frame interrupted by a command after CmdAfter symbols, then heard anew
InterruptedTapes ==
  {SymItems(SubSeq(buildFrameBits(Payload(0), FALSE), 1, CmdAfter))
     \o <<c>>
     \o SymItems(SubSeq(buildFrameBits(Payload(0), FALSE), 1, DemodRearm)) : c \in MidCommands}

\* how many of the next max items of the tape are symbols in a row
SymRun(tp, max) ==
  LET stops == {i \in 1..Min(max, Len(tp)) : tp[i].op # "sym"}
  IN  IF stops = {} THEN Min(max, Len(tp))
      ELSE (CHOOSE i \in stops : \A j \in stops : i <= j) - 1

\* the processor as constructed
InitDemod(tapes) ==
  /\ signBuf = <<>>
  /\ lockedFlag = FALSE
  /\ holdoff = 0
  /\ pllReport = 0
  /\ outBits = <<>>
  /\ lockThreshold = DefaultLockThreshold
  /\ holdoffSymbols = DefaultHoldoffSymbols
  /\ demodOut = <<>>
  /\ lastSyms = <<>>
  /\ tape \in tapes
  /\ dsp = constructedDsp
  /\ lastCfg = [cmd |-> NoCmd, locked |-> FALSE, held |-> 0, window |-> 0,
                 was |-> constructedDsp]

SetDemod(d) ==
  /\ signBuf' = d.signBuf
  /\ lockedFlag' = d.lockedFlag
  /\ holdoff' = d.holdoff
  /\ pllReport' = d.pllReport
  /\ lockThreshold' = d.lockThreshold
  /\ holdoffSymbols' = d.holdoffSymbols

\* a process that posts the bits collected but keeps them in outBits
DemodProcessKeep ==
  /\ tape # <<>>
  /\ \E n \in 0..SymRun(tape, MaxSymbolsPerBlock) :
       \E r \in {runSymbols(<<DemodRec, <<>>>>, [i \in 1..n |-> tape[i].bit] \o <<>>)} :
          /\ SetDemod(r[1])
          /\ outBits' = r[1].outBits
          /\ demodOut' = r[1].msgs \o (IF r[1].outBits # <<>>
                                        THEN <<[type |-> "bits", bits |-> r[1].outBits]>>
                                        ELSE <<>>)
          /\ lastSyms' = r[2]
          /\ tape' = SubSeq(tape, n + 1, Len(tape))
  /\ dsp' = processDsp(dsp)
  /\ UNCHANGED lastCfg
  /\ UNCHANGED syncVars

\* process(inputs): the block completes n symbols, then the bits collected
\* are posted in one message and outBits starts afresh
DemodProcess ==
  /\ tape # <<>>
  /\ \E n \in 0..SymRun(tape, MaxSymbolsPerBlock) :
       \E r \in {runSymbols(<<DemodRec, <<>>>>, [i \in 1..n |-> tape[i].bit] \o <<>>)} :
          /\ SetDemod(r[1])
          /\ outBits' = <<>>
          /\ demodOut' = r[1].msgs \o (IF r[1].outBits # <<>>
                                        THEN <<[type |-> "bits", bits |-> r[1].outBits]>>
                                        ELSE <<>>)
          /\ lastSyms' = r[2]
          /\ tape' = SubSeq(tape, n + 1, Len(tape))
  /\ dsp' = processDsp(dsp)
  /\ UNCHANGED lastCfg
  /\ UNCHANGED syncVars

\* port.onmessage, type 'reset'
DemodResetMsg ==
  /\ tape # <<>>
  /\ Head(tape).op = "reset"
  /\ SetDemod(reset(DemodRec))
  /\ outBits' = reset(DemodRec).outBits
  /\ dsp' = reset(DemodRec).dsp
  /\ demodOut' = <<>>
  /\ lastSyms' = <<>>
  /\ tape' = Tail(tape)
  /\ UNCHANGED lastCfg
  /\ UNCHANGED syncVars

\* port.onmessage, type 'config'
DemodConfigMsg ==
  /\ tape # <<>>
  /\ Head(tape).op = "config"
  /\ SetDemod(applyConfig(DemodRec, Head(tape)))
  /\ outBits' = applyConfig(DemodRec, Head(tape)).outBits
  /\ dsp' = applyConfig(DemodRec, Head(tape)).dsp
  /\ demodOut' = <<>>
  /\ lastSyms' = <<>>
  /\ tape' = Tail(tape)
  /\ lastCfg' = [cmd |-> Head(tape), locked |-> lockedFlag, held |-> holdoff,
                  window |-> Len(signBuf), was |-> dsp]
  /\ UNCHANGED syncVars

DEFAULT_CARRIER == 18000
DEFAULT_SYMBOL_RATE == 500
MIN_CARRIER == 15000
MAX_CARRIER == 21000
MIN_BAUD == 100
MAX_BAUD == 1500
Milli == 1000                  \* lpfFactor and lockThreshold are kept in thousandths
MIN_LPF_FACTOR == 1 * Milli
MAX_LPF_FACTOR == 6 * Milli
MIN_CORR == 50                 \* 0.05
MAX_CORR == 1 * Milli
DefaultLpf == 2 * Milli        \* parseFloat(lpfInput.value) || 2
DefaultCorr == 300             \* parseFloat(corrInput.value) || 0.3

\* what parseInt / parseFloat make of an input's text: a number or NaN
Num(v) == [nan |-> FALSE, v |-> v]
NaN == [nan |-> TRUE, v |-> 0]

\* parsed || dflt: NaN and 0 are falsy
orDefault(parsed, dflt) == IF parsed.nan \/ parsed.v = 0 THEN dflt ELSE parsed.v

\* clamp(v, lo, hi) = Math.min(Math.max(v, lo), hi)
clamp(v, lo, hi) == Min(Max(v, lo), hi)

\* a clamp to the range 0.1 .. 0.95 whatever lo and hi are
clampNarrow(v, lo, hi) == Min(Max(v, Max(lo, 100)), Min(hi, 950))

\* v.toFixed(digits) read back as a number: v, in thousandths, rounded to a
\* multiple of step thousandths
toFixed(v, step) == ((v + (step \div 2)) \div step) * step

\* the part of applySettingsFromUI that reads the inputs: ui is what they
\* hold, parsed
readSettings(ui) ==
  [carrierHz |-> clamp(orDefault(ui.freq, DEFAULT_CARRIER), MIN_CARRIER, MAX_CARRIER),
   symbolRate |-> clamp(orDefault(ui.baud, DEFAULT_SYMBOL_RATE), MIN_BAUD, MAX_BAUD),
   lpfFactor |-> clamp(orDefault(ui.lpf, DefaultLpf), MIN_LPF_FACTOR, MAX_LPF_FACTOR),
   lockThreshold |-> clamp(orDefault(ui.corr, DefaultCorr), MIN_CORR, MAX_CORR)]

\* what the inputs show afterwards
shownSettings(v) ==
  [freq |-> Num(v.carrierHz), baud |-> Num(v.symbolRate),
   lpf |-> Num(toFixed(v.lpfFactor, 100)), corr |-> Num(toFixed(v.lockThreshold, 10))]

\* applySettingsFromUI(), with ui what the settings inputs hold and ui.fec
\* the state of the FEC checkbox: the settings are read and clamped, written
\* back to the inputs and, if a node is attached, it is sent a config message
\* and the synchronizer starts afresh; s is the synchronizer's state
applySettingsFromUI(s, ui, demod) ==
  [useFEC |-> ui.fec,
   values |-> readSettings(ui),
   shown |-> shownSettings(readSettings(ui)),
   configs |-> IF demod THEN <<readSettings(ui)>> ELSE <<>>,
   sync |-> IF demod
              THEN [s EXCEPT !.bitBuffer = <<>>, !.codedBuffer = <<>>, !.synced = FALSE]
              ELSE s]

\* the settings inputs as they stand, with the checkbox in state fec
uiNow(fec) ==
  [freq |-> settings.ui.freq, baud |-> settings.ui.baud, lpf |-> settings.ui.lpf,
   corr |-> settings.ui.corr, fec |-> fec]

\* the page's settings after an applySettingsFromUI that returned a, with
\* the config messages in posted sent to the node
SetSettings(a, posted) ==
  settings' = [settings EXCEPT !.carrierHz = a.values.carrierHz,
                               !.symbolRate = a.values.symbolRate,
                               !.lpfFactor = a.values.lpfFactor,
                               !.lockThreshold = a.values.lockThreshold,
                               !.ui = a.shown,
                               !.sent = IF posted = <<>> THEN @
                                        ELSE <<posted[Len(posted)]>>]

(***************************************************************************)
(* Actions of the application.                                              *)
(***************************************************************************)
\* the page as loaded: nothing listens, the sender's transmission is still
\* to come
InitApp(scenarios) ==
  /\ scn \in scenarios
  /\ feed = Segs(scn)
  /\ useFEC = TRUE
  /\ listening = FALSE
  /\ demodNode = FALSE
  /\ bitBuffer = <<>>
  /\ codedBuffer = <<>>
  /\ synced = FALSE
  /\ events = <<>>
  /\ resetsPosted = 0
  /\ inflight = 0
  /\ fed = 0
  /\ heard = <<>>
  /\ trimmedAt = 0
  /\ sessions = 0
  /\ configsPosted = 0
  /\ uiChanges = 0
  /\ tx = [ctx |-> FALSE, buffers |-> 0, started |-> 0, calls |-> <<>>]

\* startListening(): applySettingsFromUI reads the FEC checkbox (no node is
\* attached yet, so it resets nothing), the audio context is ensured, then
\* the node is created and sent its config message and the search restarts;
\* codedBuffer is left as it is
StartListening ==
  /\ ~listening
  /\ sessions < MaxSessions
  /\ useFEC' = scn.fec
  /\ demodNode' = TRUE
  /\ listening' = TRUE
  /\ bitBuffer' = <<>>
  /\ synced' = FALSE
  /\ heard' = <<>>
  /\ inflight' = 0
  /\ sessions' = sessions + 1
  /\ configsPosted' = configsPosted + 1
  /\ \E a \in {applySettingsFromUI(SyncRec, uiNow(scn.fec), FALSE)} :
        SetSettings(a, <<a.values>>)
  /\ tx' = [tx EXCEPT !.ctx = TRUE]
  /\ UNCHANGED <<codedBuffer, events, resetsPosted, feed, scn, fed, trimmedAt,
                 uiChanges, codec, variantVars>>
  /\ UNCHANGED demodVars

\* stopListening(): the node is told to reset and dropped; messages it had
\* already posted may still be delivered
StopListening ==
  /\ listening
  /\ listening' = FALSE
  /\ resetsPosted' = IF demodNode THEN resetsPosted + 1 ELSE resetsPosted
  /\ demodNode' = FALSE
  /\ \E k \in 0..MaxInflight : inflight' = k
  /\ UNCHANGED <<useFEC, bitBuffer, codedBuffer, synced, events, feed, scn, fed,
                 heard, trimmedAt, sessions, pageVars>>
  /\ UNCHANGED demodVars

\* handleDemodMessage({type: 'bits', bits}) -> handleBits(bits)
DeliverBits(bits) ==
  \E s \in {handleBits(SyncRec, bits, useFEC, demodNode)} :
      /\ bitBuffer' = s.bitBuffer
      /\ codedBuffer' = s.codedBuffer
      /\ synced' = s.synced
      /\ events' = s.events
      /\ resetsPosted' = s.resets
      /\ fed' = fed + Len(bits)
      /\ heard' = IF ~synced /\ ~s.synced THEN heard \o bits ELSE <<>>
      /\ trimmedAt' = IF ~synced /\ ~s.synced /\ Len(s.bitBuffer) < Len(bitBuffer) + Len(bits)
                        THEN fed + Len(bits) ELSE trimmedAt

HandleBitsMsg ==
  /\ feed # <<>>
  /\ demodNode \/ inflight > 0
  /\ \E n \in BatchSizes(feed) :
        /\ DeliverBits(TakeBits(feed, n))
        /\ feed' = DropBits(feed, n)
  /\ inflight' = IF demodNode THEN inflight ELSE inflight - 1
  /\ UNCHANGED <<useFEC, listening, demodNode, scn, sessions, pageVars>>
  /\ UNCHANGED demodVars

\* a change event of one of the settings inputs
ApplySettings ==
  /\ uiChanges < MaxUiChanges
  /\ \E ui \in settings.edits :
       \E a \in {applySettingsFromUI(SyncRec, ui, demodNode)} :
          /\ useFEC' = a.useFEC
          /\ configsPosted' = configsPosted + Len(a.configs)
          /\ SetSettings(a, a.configs)
          /\ bitBuffer' = a.sync.bitBuffer
          /\ codedBuffer' = a.sync.codedBuffer
          /\ synced' = a.sync.synced
  /\ uiChanges' = uiChanges + 1
  /\ heard' = IF demodNode THEN <<>> ELSE heard
  /\ UNCHANGED <<listening, demodNode, events, resetsPosted, feed, inflight, scn,
                 fed, trimmedAt, sessions, tx, codec, variantVars>>
  /\ UNCHANGED demodVars

vars == <<syncVars, demodVars>>

\* the settings inputs showing the defaults, with the checkbox in state fec
DefaultUi(fec) ==
  [freq |-> Num(DEFAULT_CARRIER), baud |-> Num(DEFAULT_SYMBOL_RATE),
   lpf |-> Num(DefaultLpf), corr |-> Num(DefaultCorr), fec |-> fec]

\* the user only toggles the FEC checkbox
CheckboxEdits == {DefaultUi(f) : f \in BOOLEAN}

\* entries tried in the settings inputs, one input at a time: nothing
\* numeric, zero, negative, and values around both ends of each range
FreqEntries == {NaN, Num(0), Num(-1), Num(MIN_CARRIER - 1), Num(MIN_CARRIER),
                Num(MAX_CARRIER), Num(MAX_CARRIER + 1)}
BaudEntries == {NaN, Num(0), Num(-1), Num(MIN_BAUD - 1), Num(MIN_BAUD),
                Num(MAX_BAUD), Num(MAX_BAUD + 1)}
LpfEntries == {NaN, Num(0), Num(MIN_LPF_FACTOR - 1), Num(2340), Num(MAX_LPF_FACTOR + 1)}
CorrEntries == {NaN, Num(0), Num(-1), Num(MIN_CORR - 1), Num(MIN_CORR), Num(100),
                Num(500), Num(950), Num(MAX_CORR), Num(MAX_CORR + 1)}

UiEdits ==
  {[DefaultUi(TRUE) EXCEPT !.freq = x] : x \in FreqEntries}
    \cup {[DefaultUi(TRUE) EXCEPT !.baud = x] : x \in BaudEntries}
    \cup {[DefaultUi(TRUE) EXCEPT !.lpf = x] : x \in LpfEntries}
    \cup {[DefaultUi(TRUE) EXCEPT !.corr = x] : x \in CorrEntries}
    \cup {[freq |-> NaN, baud |-> NaN, lpf |-> NaN, corr |-> NaN, fec |-> FALSE]}

\* the page's settings as loaded; edits are the entries the user may make
InitPage(edits) ==
  settings = [carrierHz |-> DEFAULT_CARRIER, symbolRate |-> DEFAULT_SYMBOL_RATE,
              lpfFactor |-> DefaultLpf, lockThreshold |-> DefaultCorr,
              ui |-> shownSettings(readSettings(DefaultUi(TRUE))),
              sent |-> <<>>, edits |-> edits]

\* everything but codec
besideCodec == <<useFEC, listening, demodNode, bitBuffer, codedBuffer, synced,
                 events, resetsPosted, feed, inflight, scn, fed, heard,
                 trimmedAt, sessions, configsPosted, uiChanges, tx, settings,
                 variantVars>>

(***************************************************************************)
(* The byte-oriented receiver (ingestBit / checkPacket) and its sender.     *)
(***************************************************************************)
RxBufferGuard == 256           \* rxState.buffer.length > 256 unlocks

\* crc16 of this receiver: the loop leaves the bits above bit 15 in place
\* and the result is masked at the end; those bits never flow back into the
\* low 16, which are computed here
rxCrc16(bytes) == crc16Range(bytes, 1, Len(bytes), CRC_INIT) % 65536

\* transmit(text): packet = length, payload, CRC high byte, CRC low byte
rxPacket(payload) ==
  Let(<<Len(payload) % 256>> \o payload,
      LAMBDA head : head \o <<rxCrc16(head) \div 256, rxCrc16(head) % 256>>)

\* the bits transmit() sends from the sync word to the end of the packet
rxStream(payload) == wordToBits(SYNC_WORD, 32) \o bytesToBits(rxPacket(payload))

\* ((syncBuf << 1) | bit) >>> 0, on a pair of 16-bit halves
shiftIn(word, bit) ==
  <<(2 * word[1] + (word[2] \div 32768)) % 65536, (2 * word[2] + bit) % 65536>>

\* checkPacket(): r is rxState with the reports made so far in out
checkPacket(r) ==
  IF Len(r.buffer) < 2 THEN r
  ELSE LET len == r.buffer[1]
           expectedLen == 1 + len + 2
       IN  IF Len(r.buffer) < expectedLen THEN r
           ELSE LET packet == SubSeq(r.buffer, 1, expectedLen)
                    dataPart == SubSeq(packet, 2, 1 + len)
                    calc == rxCrc16(SubSeq(packet, 1, expectedLen - 2))
                    recv == 256 * packet[expectedLen - 1] + packet[expectedLen]
                IN  [r EXCEPT !.isLocked = FALSE,
                              !.buffer = <<>>,
                              !.out = Append(@, IF calc = recv
                                                  THEN [type |-> "msg", text |-> safeDecode(dataPart)]
                                                  ELSE [type |-> "crcFail", text |-> <<>>])]

\* ingestBit(bit)
ingestBit(r, bit) ==
  IF ~r.isLocked
    THEN LET sb == shiftIn(r.syncBuf, bit)
         IN  IF sb = SYNC_WORD
               THEN [r EXCEPT !.syncBuf = sb, !.isLocked = TRUE, !.buffer = <<>>,
                              !.bitBuffer = <<>>]
               ELSE [r EXCEPT !.syncBuf = sb]
    ELSE LET bb == Append(r.bitBuffer, bit)
             r1 == IF Len(bb) = 8
                     THEN checkPacket([r EXCEPT !.buffer = Append(@, bitsToByte(bb)),
                                                !.bitBuffer = <<>>])
                     ELSE [r EXCEPT !.bitBuffer = bb]
         IN  IF Len(r1.buffer) > RxBufferGuard THEN [r1 EXCEPT !.isLocked = FALSE] ELSE r1

\* for (const bit of d.data) ingestBit(bit)
RECURSIVE ingestAll(_, _, _, _)
ingestAll(r, bits, lo, hi) ==
  IF lo > hi THEN r ELSE ingestAll(ingestBit(r, bits[lo]), bits, lo + 1, hi)

IngestBatch == 32      \* bits in a longer 'bits' message

\* what the receiver is given: nothing
NoRxInput == {[payload |-> <<>>, stream |-> <<>>, pos |-> 0]}

\* what the receiver is given: the packet of a payload of each length in lens
RxInputs(lens) ==
  {[payload |-> Payload(n), stream |-> rxStream(Payload(n)), pos |-> 0] : n \in lens}

\* rxState as the page is loaded
InitRx(inputs) ==
  /\ rxState = [syncBuf |-> <<0, 0>>, isLocked |-> FALSE, buffer |-> <<>>,
                 bitBuffer |-> <<>>]
  /\ rxOut = <<>>
  /\ rxIn \in inputs

\* the worklet's 'bits' message: its bits are ingested one after the other
IngestBits ==
  /\ rxIn.pos < Len(rxIn.stream)
  /\ \E n \in {1, Min(IngestBatch, Len(rxIn.stream) - rxIn.pos)} :
       \E r \in {ingestAll([syncBuf |-> rxState.syncBuf, isLocked |-> rxState.isLocked,
                             buffer |-> rxState.buffer, bitBuffer |-> rxState.bitBuffer,
                             out |-> rxOut],
                            rxIn.stream, rxIn.pos + 1, rxIn.pos + n)} :
          /\ rxState' = [syncBuf |-> r.syncBuf, isLocked |-> r.isLocked,
                          buffer |-> r.buffer, bitBuffer |-> r.bitBuffer]
          /\ rxOut' = r.out
          /\ rxIn' = [rxIn EXCEPT !.pos = @ + n]
  /\ UNCHANGED <<useFEC, listening, demodNode, bitBuffer, codedBuffer, synced,
                 events, resetsPosted, feed, inflight, scn, fed, heard,
                 trimmedAt, sessions, configsPosted, uiChanges, tx, settings, codec>>
  /\ UNCHANGED demodVars

\* payload lengths given to the receiver: the short ones, two in the middle
\* and the two longest
VariantLens ==
  (0..MaxPayloadLen) \cup {MaxPayloadBytes \div 2, (MaxPayloadBytes \div 2) + 1}
    \cup {MaxPayloadBytes - 1, MaxPayloadBytes}


\* the codec on its own: info is the bit sequence to encode, coded what
\* convEncode made of it, flips the positions the channel inverts, rx what
\* arrives, decoded what viterbiDecode makes of that
InitCodec(inputs) ==
  codec \in {[stage |-> "input", info |-> b, coded |-> <<>>, flips |-> {},
               rx |-> <<>>, decoded |-> <<>>] : b \in inputs}

Init == InitApp(ShortScenarios) /\ InitDemod({<<>>}) /\ InitCodec({<<>>}) /\ InitPage(CheckboxEdits) /\ InitRx(NoRxInput)
Next == StartListening \/ HandleBitsMsg
Spec == Init /\ [][Next]_vars

InitLong == InitApp(LongScenarios) /\ InitDemod({<<>>}) /\ InitCodec({<<>>}) /\ InitPage(CheckboxEdits) /\ InitRx(NoRxInput)
SpecLong == InitLong /\ [][Next]_vars

InitSession == InitApp(SessionScenarios) /\ InitDemod({<<>>}) /\ InitCodec({<<>>}) /\ InitPage(CheckboxEdits) /\ InitRx(NoRxInput)
\* frames in both modes, and one whose payload is the sync word itself
RetainScenarios ==
  {Scn("pair", f, n, "clean") : f \in BOOLEAN, n \in {0, MaxPayloadLen}}
    \cup {Scn("echo", FALSE, Len(syncBits) \div 8, "clean")}

InitRetain == InitApp(RetainScenarios) /\ InitDemod({<<>>}) /\ InitCodec({<<>>}) /\ InitPage(CheckboxEdits) /\ InitRx(NoRxInput)
SpecRetain == InitRetain /\ [][Next]_vars

\* frames with a wrong length byte, and frames hit by an error burst
HeaderScenarios ==
  {Scn("head", f, n, c) : f \in BOOLEAN, n \in {0, 1}, c \in {"msb", "lsb"}}
    \cup {Scn("pair", f, MaxPayloadLen, "burst") : f \in BOOLEAN}

InitHeader == InitApp(HeaderScenarios) /\ InitDemod({<<>>}) /\ InitCodec({<<>>}) /\ InitPage(CheckboxEdits) /\ InitRx(NoRxInput)
SpecHeader == InitHeader /\ [][Next]_vars

NextSession == StartListening \/ StopListening \/ HandleBitsMsg
SpecSession == InitSession /\ [][NextSession]_vars

\* the texts sent: n copies of the code point cp
Text(n, cp) == [i \in 1..n |-> cp] \o <<>>

ShortTextLen == 1      \* length of a short text
LetterA == 97          \* 'a', one byte in UTF-8
LetterEAcute == 233    \* U+00E9, two bytes in UTF-8
MaxPlays == 2          \* calls of playFrame

TextInputs ==
  {Text(ShortTextLen, LetterA), Text(ShortTextLen, LetterEAcute),
   Text(MaxPayloadBytes, LetterA), Text(MaxPayloadBytes + 1, LetterA),
   Text((MaxPayloadBytes + 1) \div 2, LetterEAcute)}

\* playFrame(text) after its settings and context steps: f is what
\* buildFrameBits ended in; on an error nothing more happens, otherwise the
\* signal is computed, put into a new buffer and a new source is started
playFrameFrom(t, fec, f) ==
  IF f.error
    THEN [t EXCEPT !.ctx = TRUE,
                   !.calls = Append(@, [fec |-> fec, error |-> TRUE, bytes |-> f.bytes,
                                         payload |-> f.payload,
                                         bits |-> f.bits, samples |-> 0])]
    ELSE [t EXCEPT !.ctx = TRUE,
                   !.buffers = @ + 1,
                   !.started = @ + 1,
                   !.calls = Append(@, [fec |-> fec, error |-> FALSE, bytes |-> f.bytes,
                                         payload |-> f.payload,
                                         bits |-> f.bits,
                                         samples |-> Len(f.bits)
                                           * Max(1, RoundDiv(SampleRate, DefaultSymbolRate))])]

\* playFrame(text), called by the send button for a text that is not blank;
\* fec is the state of the FEC checkbox.  Its applySettingsFromUI also resets
\* the synchronizer if the page is listening.
PlayFrame ==
  /\ Len(tx.calls) < MaxPlays
  /\ \E text \in TextInputs, fec \in BOOLEAN :
       \E a \in {applySettingsFromUI(SyncRec, uiNow(fec), demodNode)} :
          /\ useFEC' = a.useFEC
          /\ configsPosted' = configsPosted + Len(a.configs)
          /\ SetSettings(a, a.configs)
          /\ bitBuffer' = a.sync.bitBuffer
          /\ codedBuffer' = a.sync.codedBuffer
          /\ synced' = a.sync.synced
          /\ \E f \in {buildFrameBitsOf(text, a.useFEC)} : tx' = playFrameFrom(tx, a.useFEC, f)
  /\ heard' = IF demodNode THEN <<>> ELSE heard
  /\ UNCHANGED <<listening, demodNode, events, resetsPosted, feed, inflight, scn,
                 fed, trimmedAt, sessions, uiChanges, codec, variantVars>>
  /\ UNCHANGED demodVars

InitSend ==
  InitApp({Scn("bare", FALSE, 0, "clean")}) /\ InitDemod({<<>>}) /\ InitCodec({<<>>}) /\ InitPage(CheckboxEdits) /\ InitRx(NoRxInput)
NextSend == StartListening \/ PlayFrame
SpecSend == InitSend /\ [][NextSend]_vars

InitSettings ==
  /\ InitApp({Scn("bare", f, 0, "clean") : f \in BOOLEAN})
  /\ InitDemod({<<>>})
  /\ InitCodec({<<>>})
  /\ InitPage(UiEdits)
  /\ InitRx(NoRxInput)
NextSettings == StartListening \/ StopListening \/ ApplySettings
SpecSettings == InitSettings /\ [][NextSettings]_vars

\* sending while a frame is being received
InitDuplex ==
  /\ InitApp({Scn("bare", FALSE, 0, "clean")})
  /\ InitDemod({<<>>})
  /\ InitCodec({<<>>})
  /\ InitPage(CheckboxEdits) /\ InitRx(NoRxInput)
NextDuplex == StartListening \/ HandleBitsMsg \/ PlayFrame
SpecDuplex == InitDuplex /\ [][NextDuplex]_vars

NextLifecycle == StartListening \/ StopListening \/ ApplySettings \/ HandleBitsMsg
SpecLifecycle == InitSession /\ [][NextLifecycle]_vars

InitDemodOnly ==
  /\ InitApp({Scn("bare", FALSE, 0, "clean")})
  /\ InitDemod(DemodTapes \cup InterruptedTapes)
  /\ InitCodec({<<>>}) /\ InitPage(CheckboxEdits) /\ InitRx(NoRxInput)

MaxInfoLen == 5        \* longest of the bit sequences tried exhaustively
FlipSpacing == 20      \* coded bits between two flips that are far apart
MaxFlips == 3          \* flips in one coded stream

\* all bit sequences of length n
RECURSIVE BitSeqs(_)
BitSeqs(n) ==
  IF n = 0 THEN {<<>>}
  ELSE {Append(b, x) : b \in BitSeqs(n - 1), x \in 0..1}

\* every bit sequence of up to MaxInfoLen bits, and the info bits of a frame
InfoInputs ==
  UNION {BitSeqs(n) : n \in 0..MaxInfoLen} \cup {frameInfoBits(Payload(1))}

\* flips from position p on, FlipSpacing apart, k of them
SpacedFlips(p, k) == {p + i * FlipSpacing : i \in 0..(k - 1)}

\* what the channel may do to n coded bits: nothing, one flip anywhere, or
\* up to MaxFlips flips FlipSpacing apart
FlipSets(n) ==
  {{}} \cup {SpacedFlips(p, k) : p \in 1..n, k \in 1..MaxFlips}

flipAll(bits, at) == [k \in 1..Len(bits) |-> IF k \in at THEN 1 - bits[k] ELSE bits[k]] \o <<>>

\* convEncode(infoBits)
Encode ==
  /\ codec.stage = "input"
  /\ codec' = [codec EXCEPT !.stage = "coded", !.coded = convEncode(codec.info)]
  /\ UNCHANGED besideCodec
  /\ UNCHANGED demodVars

\* the channel between encoder and decoder
Transmit ==
  /\ codec.stage = "coded"
  /\ \E at \in FlipSets(Len(codec.coded)) :
        /\ \A p \in at : p <= Len(codec.coded)
        /\ codec' = [codec EXCEPT !.stage = "received", !.flips = at,
                                   !.rx = flipAll(codec.coded, at)]
  /\ UNCHANGED besideCodec
  /\ UNCHANGED demodVars

\* viterbiDecode(codedBits)
Decode ==
  /\ codec.stage = "received"
  /\ codec' = [codec EXCEPT !.stage = "decoded", !.decoded = viterbiDecode(codec.rx)]
  /\ UNCHANGED besideCodec
  /\ UNCHANGED demodVars

MaxCrcPayload == 6     \* longest payload whose header and payload bits are flipped

\* the bytes crc16 is computed over: length, version, payload
crcInput(payload) == <<Len(payload), VERSION>> \o payload

\* every one-byte payload, and one payload of each length up to MaxCrcPayload
CrcInputs ==
  {crcInput(<<v>>) : v \in 0..255} \cup {crcInput(Payload(n)) : n \in 0..MaxCrcPayload}

\* the CRC on its own: bytes is length, version and payload, crc what crc16
\* made of it at the sender, at the bit the channel inverts (1-based, 0 for
\* none yet), rx the bytes that arrive and calc what crc16 makes of those
InitCrc(inputs) ==
  codec \in {[stage |-> "bytes", bytes |-> b, crc |-> 0, at |-> 0, rx |-> <<>>,
               calc |-> 0] : b \in inputs}

\* crc16(bytes) at the sender
CrcSend ==
  /\ codec.stage = "bytes"
  /\ codec' = [codec EXCEPT !.stage = "summed", !.crc = crc16(codec.bytes)]
  /\ UNCHANGED besideCodec
  /\ UNCHANGED demodVars

\* the channel inverts one bit of length, version or payload
CrcCorrupt ==
  /\ codec.stage = "summed"
  /\ \E p \in 1..(8 * Len(codec.bytes)) :
        codec' = [codec EXCEPT !.stage = "arrived", !.at = p,
                    !.rx = bitsToBytes(flipAll(bytesToBits(codec.bytes), {p}))]
  /\ UNCHANGED besideCodec
  /\ UNCHANGED demodVars

\* crc16(dataBytes) at the receiver
CrcReceive ==
  /\ codec.stage = "arrived"
  /\ codec' = [codec EXCEPT !.stage = "verified", !.calc = crc16(codec.rx)]
  /\ UNCHANGED besideCodec
  /\ UNCHANGED demodVars

InitCrcOnly ==
  /\ InitApp({Scn("bare", FALSE, 0, "clean")})
  /\ InitDemod({<<>>})
  /\ InitCrc(CrcInputs)
  /\ InitPage(CheckboxEdits) /\ InitRx(NoRxInput)
NextCrc == CrcSend \/ CrcCorrupt \/ CrcReceive
SpecCrc == InitCrcOnly /\ [][NextCrc]_vars

PatternBytes == 4       \* bytes of the payloads made of one repeated pattern
Alt10 == 170            \* 10101010, the preamble's pattern
Alt01 == 85             \* 01010101

\* payloads whose frames are searched: the usual ones, the sync word itself
\* and the two alternating patterns
SearchPayloads ==
  {Payload(n) : n \in 0..MaxPayloadLen}
    \cup {bitsToBytes(syncBits)}
    \cup {[k \in 1..PatternBytes |-> b] \o <<>> : b \in {Alt10, Alt01}}

\* the buffers searched: a frame of buildFrameBits from which the first
\* PREAMBLE_BITS - keep bits are missing
SearchBuffers(frame) ==
  {[stage |-> "buffered", keep |-> n, idx |-> -1,
    bits |-> SubSeq(frame, PREAMBLE_BITS - n + 1, Len(frame))] : n \in 0..PREAMBLE_BITS}

SearchInputs ==
  UNION {SearchBuffers(frame) :
           frame \in {buildFrameBits(p, f) : p \in SearchPayloads, f \in BOOLEAN}}

\* findSync(bitBuffer, syncBits)
FindSync ==
  /\ codec.stage = "buffered"
  /\ codec' = [codec EXCEPT !.stage = "searched", !.idx = findSync(codec.bits, syncBits)]
  /\ UNCHANGED besideCodec
  /\ UNCHANGED demodVars

InitSearch ==
  /\ InitApp({Scn("bare", FALSE, 0, "clean")})
  /\ InitDemod({<<>>})
  /\ codec \in SearchInputs
  /\ InitPage(CheckboxEdits) /\ InitRx(NoRxInput)
NextSearch == FindSync
SpecSearch == InitSearch /\ [][NextSearch]_vars

InitVariant ==
  /\ InitApp({Scn("bare", FALSE, 0, "clean")})
  /\ InitDemod({<<>>})
  /\ InitCodec({<<>>})
  /\ InitPage(CheckboxEdits)
  /\ InitRx(RxInputs(VariantLens))
NextVariant == IngestBits
SpecVariant == InitVariant /\ [][NextVariant]_vars

\* tryDecodeFrame(), first pass: the length it reads from the decode of the
\* whole coded buffer, or -1 when it returns before reading one
firstPassLen(coded) ==
  IF Len(coded) < 2 * ((16 + 16) + FLUSH_BITS) THEN -1
  ELSE bitsToByte(SubSeq(viterbiDecode(coded), 1, 8))

AttemptSmall == 4      \* a short batch of coded bits
AttemptLarge == 36     \* a long batch of coded bits
MaxBurst == 12         \* longest run of inverted coded bits
BurstStep == 12        \* distance between two burst positions tried
AttemptTail == 24      \* idle bits that follow the coded frame

\* the synchronizer right after the sync word was found at the very end of
\* a batch
JustSynced ==
  [bitBuffer |-> <<>>, codedBuffer |-> <<>>, synced |-> TRUE, events |-> <<>>, resets |-> 0]

\* the coded bits of a frame, a run of them inverted, then an idle channel
BurstStreams ==
  {flipRange(convEncode(frameInfoBits(Payload(n))), from, count) \o Zeros(AttemptTail) :
     n \in 0..1,
     from \in {1 + BurstStep * k : k \in 0..(((2 * (neededInfoBits(0) + FLUSH_BITS)) \div BurstStep) - 1)},
     count \in {0, MaxBurst \div 2, MaxBurst}}

\* what follows the sync word when the sender has FEC switched off and sends
\* its frame twice: the uncoded body, then the whole second frame
PlainStreams ==
  {frameInfoBits(Payload(n)) \o buildFrameBits(Payload(n), FALSE) : n \in 0..MaxPayloadLen}

\* a coded frame cut short after CutKeep bits, then the same frame again
CutStreams ==
  {SubSeq(convEncode(frameInfoBits(Payload(n))), 1, CutKeep) \o buildFrameBits(Payload(n), TRUE) :
     n \in 0..MaxPayloadLen}

CodedStreams == BurstStreams \cup PlainStreams \cup CutStreams

AttemptInputs ==
  {[stage |-> "synced", stream |-> c, at |-> 0, s |-> JustSynced, lens |-> <<>>] :
     c \in CodedStreams}

\* handleBits(bits) in FEC mode while synced: the batch joins codedBuffer and
\* tryDecodeFrame() runs; lens collects the length each attempt read
TryDecode ==
  /\ codec.stage = "synced"
  /\ codec.at < Len(codec.stream)
  /\ \E n \in {AttemptSmall, AttemptLarge} :
       \E bits \in {SubSeq(codec.stream, codec.at + 1, Min(Len(codec.stream), codec.at + n))} :
         \E after \in {handleBits(codec.s, bits, TRUE, TRUE)} :
           \E len \in {firstPassLen(codec.s.codedBuffer \o bits)} :
             codec' = [codec EXCEPT !.s = after,
                                    !.at = @ + Len(bits),
                                    !.lens = IF len = -1 THEN @ ELSE Append(@, len),
                                    !.stage = IF after.synced THEN "synced" ELSE "done"]
  /\ UNCHANGED besideCodec
  /\ UNCHANGED demodVars

InitAttempt ==
  /\ InitApp({Scn("bare", TRUE, 0, "clean")})
  /\ InitDemod({<<>>})
  /\ codec \in AttemptInputs
  /\ InitPage(CheckboxEdits) /\ InitRx(NoRxInput)
NextAttempt == TryDecode
SpecAttempt == InitAttempt /\ [][NextAttempt]_vars

InitFec ==
  /\ InitApp({Scn("bare", FALSE, 0, "clean")})
  /\ InitDemod({<<>>})
  /\ InitCodec(InfoInputs)
  /\ InitPage(CheckboxEdits) /\ InitRx(NoRxInput)
NextFec == Encode \/ Transmit \/ Decode
SpecFec == InitFec /\ [][NextFec]_vars

NextDemod == DemodProcess \/ DemodResetMsg \/ DemodConfigMsg
SpecDemod == InitDemodOnly /\ [][NextDemod]_vars

(***************************************************************************)
(* Properties.                                                              *)
(***************************************************************************)
\* what the channel carries of the first transmitted frame, and the value of
\* fed once all of it has been handled
TxBits(sc) == Corrupt(TxFrame(sc), sc.corr)
FrameOneEnd(sc) ==
  CASE sc.shape = "bare"  -> Len(TxFrame(sc)) - PREAMBLE_BITS
    [] sc.shape = "noise" -> 2 * NoiseLen + Len(TxFrame(sc))
    [] OTHER              -> Len(TxBits(sc))

\* the batch a step hands to handleBits (for steps that change fed)
Batch == TakeBits(feed, fed' - fed)
IsHandleBits == fed' > fed

\* e is addRx of exactly this payload: its payload bytes and its text
IsFrameOf(e, payload) ==
  /\ e.type = "frame"
  /\ SubSeq(e.data, 3, Len(e.data)) = payload
  /\ e.text = payload

\* C1: when the bits of buildFrameBits(p, fec) are handled in order, with
\* useFEC = fec and starting unsynced with empty buffers, the first frame
\* cycle that completes reports success and surfaces exactly p.
C1_RoundTrip ==
  (scn.shape \in {"pair", "bare"} /\ scn.corr = "clean"
     /\ fed <= FrameOneEnd(scn) /\ Len(events) >= 1)
    => IsFrameOf(events[1], Payload(scn.len))

C1_Witness ==
  /\ scn = Scn("pair", TRUE, MaxPayloadLen, "clean")
  /\ fed <= FrameOneEnd(scn)
  /\ Len(events) = 1
  /\ IsFrameOf(events[1], Payload(scn.len))

\* C2: when exactly the bits sync word, length, version, payload, CRC of a
\* valid frame have been handled, in one batch or in any split, the frame
\* with the original text has been emitted; no further bits are needed.
C2_ScenarioA ==
  (scn.shape = "bare" /\ fed = FrameOneEnd(scn))
    => (Len(events) >= 1 /\ IsFrameOf(events[1], Payload(scn.len)))

\* C3: text is surfaced only when the received 16-bit CRC equals crc16 over
\* the received length, version and payload bytes, and then it is the text
\* of exactly those payload bytes; on a mismatch only the CRC error is
\* reported, with no text.
C3_Integrity ==
  \A i \in 1..Len(events) :
    LET e == events[i]
    IN  /\ e.type \in {"frame", "crcError"}
        /\ e.type = "frame" =>
              /\ e.recv = crc16(e.data)
              /\ e.text = safeDecode(SubSeq(e.data, 3, Len(e.data)))
        /\ e.type = "crcError" => (e.recv # crc16(e.data) /\ e.text = <<>>)

C3_Witness ==
  /\ scn.fec
  /\ Len(events) = 2
  /\ events[1].type = "crcError"
  /\ events[2].type = "frame"

\* C4: after a frame with one flipped payload bit was handled and its CRC
\* error reported, the clean frame that follows is accepted and its text
\* emitted, for any split of the stream into batches.
C4_ScenarioB ==
  (scn.shape = "pair" /\ scn.corr = "flip" /\ scn.len >= 1 /\ ~scn.fec
     /\ feed = <<>> /\ Len(events) >= 1 /\ events[1].type = "crcError")
    => (Len(events) >= 2 /\ IsFrameOf(events[2], Payload(scn.len)))

\* the first n coded bits the sender produces for the scenario's frame
CodedPrefix(sc, n) == SubSeq(convEncode(frameInfoBits(Payload(sc.len))), 1, n)

\* the call leaves a header declaring some length L and fewer than
\* 16 + 8L + 16 body bits (their coded equivalent with FEC) after the sync word
Starved ==
  IF useFEC
    THEN LET coded == codedBuffer \o Batch
         IN  /\ Len(coded) >= 2 * 16
             /\ Len(coded) < 2 * (16 + 8 * scn.len + 16 + 6)
             /\ coded = CodedPrefix(scn, Len(coded))
    ELSE LET body == bitBuffer \o Batch
         IN  /\ Len(body) >= 16
             /\ Len(body) < 16 + 8 * bitsToByte(SubSeq(body, 1, 8)) + 16

\* C5: while fewer bits than the declared length needs are buffered after
\* the sync word, every handleBits call only appends its bits: the
\* synchronizer stays synced, keeps every buffered bit, reports nothing and
\* posts no reset.
C5_Starvation ==
  [][(IsHandleBits /\ synced /\ Starved)
       => /\ synced'
          /\ bitBuffer' = bitBuffer \o Batch
          /\ useFEC => codedBuffer' = codedBuffer \o Batch
          /\ events' = events
          /\ resetsPosted' = resetsPosted]_vars

C5_Witness ==
  /\ scn = Scn("long", FALSE, LongPayloadLen, "clean")
  /\ synced
  /\ Len(bitBuffer) >= 16 + 8 * 100
  /\ events = <<>>

\* C6: a completed frame cycle produces exactly one outcome (the frame text
\* or the CRC error) and re-arms the synchronizer: synced = false, both
\* buffers empty, and one reset posted to the demodulator if one is
\* attached; no report leaves the synchronizer synced.
C6_OneOutcomeRearmed ==
  [][(IsHandleBits /\ (events' # events \/ (synced /\ ~synced')))
       => /\ Len(events') = Len(events) + 1
          /\ SubSeq(events', 1, Len(events)) = events
          /\ events'[Len(events')].type \in {"frame", "crcError"}
          /\ ~synced'
          /\ bitBuffer' = <<>>
          /\ codedBuffer' = <<>>
          /\ resetsPosted' = IF demodNode THEN resetsPosted + 1 ELSE resetsPosted]_vars

C6_Witness ==
  /\ ~demodNode
  /\ Len(events) = 1
  /\ events[1].type = "crcError"
  /\ resetsPosted = 1
  /\ ~synced /\ bitBuffer = <<>> /\ codedBuffer = <<>>

\* C7: a call made in the synced state that leaves 16 + 8*255 + 16 = 2072
\* post-sync bits (plain) or 2*(2072 + 6) = 4156 coded bits (FEC) buffered
\* completes a frame cycle, whatever the bits are: the synchronizer is
\* unsynced again and has reported one outcome.
C7_SelfHealing ==
  [][(IsHandleBits /\ synced
        /\ (IF useFEC THEN Len(codedBuffer) + Len(Batch) >= 2 * (16 + 8 * 255 + 16 + 6)
                      ELSE Len(bitBuffer) + Len(Batch) >= 16 + 8 * 255 + 16))
       => (~synced' /\ Len(events') = Len(events) + 1)]_vars

C7_Witness ==
  /\ scn = Scn("stall", TRUE, LongPayloadLen, "cut")
  /\ fed > SyncEnd + 2 * (16 + 8 * 255 + 16 + 6)
  /\ Len(events) = 1
  /\ ~synced

\* C8: whenever the synchronizer is unsynced, the sync word does not occur
\* in the bits it has handled since the search started: a call that
\* delivers the last bit of an occurrence ends synced, also when the buffer
\* was cut down between the occurrence's first and last bits.
C8_SyncAcrossTrim == ~synced => findSync(heard, syncBits) = -1

C8_Witness ==
  /\ scn.shape = "noise"
  /\ synced
  /\ trimmedAt > 2 * NoiseLen + PREAMBLE_BITS
  /\ trimmedAt < 2 * NoiseLen + SyncEnd

\* C9: after a call that ends unsynced bitBuffer holds at most 4096 bits; a
\* call that finds no sync word in more than 4096 buffered bits keeps
\* exactly the most recent 2048 of them, in order, reports nothing and posts
\* no reset.
C9_BoundedRetention ==
  /\ [](~synced => Len(bitBuffer) <= 4096)
  /\ [][(IsHandleBits /\ ~synced /\ Len(bitBuffer \o Batch) > 4096
           /\ findSync(bitBuffer \o Batch, syncBits) = -1)
          => /\ bitBuffer' = SubSeq(bitBuffer \o Batch, Len(bitBuffer \o Batch) - 2047,
                                     Len(bitBuffer \o Batch))
             /\ ~synced'
             /\ events' = events
             /\ resetsPosted' = resetsPosted]_vars

C9_Witness ==
  /\ ~synced
  /\ trimmedAt = fed
  /\ fed > 0
  /\ Len(bitBuffer) = 2048

\* the bits of the 'bits' message the last process() call posted
PostedBits ==
  IF demodOut # <<>> /\ demodOut[Len(demodOut)].type = "bits"
    THEN demodOut[Len(demodOut)].bits ELSE <<>>

RECURSIVE PushedBits(_)
PushedBits(syms) ==
  IF syms = <<>> THEN <<>>
  ELSE (IF Head(syms).pushed THEN <<Head(syms).bit>> ELSE <<>>) \o PushedBits(Tail(syms))

LockEvent(t) == ~t.was /\ t.locked

\* C11: after a lock event the next holdoffSymbols symbol decisions, the
\* locking symbol's first, are skipped: none of them is forwarded.
C11_Holdoff ==
  \A i \in 1..Len(lastSyms) : \A j \in i..Len(lastSyms) :
    (LockEvent(lastSyms[i]) /\ j - i < holdoffSymbols) => ~lastSyms[j].pushed

\* the command at the head of the tape was handled by this step
CommandHandled == tape # <<>> /\ Head(tape).op \in {"reset", "config"} /\ tape' = Tail(tape)

\* C12: the pipeline locks only on a symbol that leaves the sign window full
\* with a correlation strictly above lockThreshold, and that symbol posts
\* exactly one 'locked' message and loads the holdoff from holdoffSymbols (the
\* gate of the same symbol then counts it down once); it unlocks only on a
\* symbol whose correlation is below half of lockThreshold or on a reset or
\* config command; no other symbol posts a 'locked' message, so the block's
\* 'locked' messages are as many as its lock events.
C12_LockMachine ==
  /\ [](Cardinality({m \in 1..Len(demodOut) : demodOut[m].type = "locked"})
          = Cardinality({i \in 1..Len(lastSyms) : LockEvent(lastSyms[i])}))
  /\ [](\A i \in 1..Len(lastSyms) :
          /\ LockEvent(lastSyms[i]) =>
                /\ lastSyms[i].full
                /\ 100 * lastSyms[i].sum > preambleSymbols * lockThreshold
                /\ lastSyms[i].said = 1
                /\ lastSyms[i].left = IF holdoffSymbols > 0 THEN holdoffSymbols - 1 ELSE 0
          /\ (lastSyms[i].was /\ ~lastSyms[i].locked) =>
                /\ lastSyms[i].full
                /\ 200 * lastSyms[i].sum < preambleSymbols * lockThreshold
          /\ ~LockEvent(lastSyms[i]) => lastSyms[i].said = 0)
  /\ [][/\ (~lockedFlag /\ lockedFlag') =>
             \E i \in 1..Len(lastSyms') : LockEvent(lastSyms'[i])
        /\ (lockedFlag /\ ~lockedFlag') =>
             \/ CommandHandled
             \/ \E i \in 1..Len(lastSyms') : lastSyms'[i].was /\ ~lastSyms'[i].locked
       ]_vars

\* a block whose first symbol locks, posting 'locked', and whose second
\* symbol unlocks on the collapsed correlation
C12_Witness ==
  /\ Len(lastSyms) = 2
  /\ LockEvent(lastSyms[1]) /\ lastSyms[1].said = 1
  /\ lastSyms[2].was /\ ~lastSyms[2].locked /\ lastSyms[2].full
  /\ Cardinality({m \in 1..Len(demodOut) : demodOut[m].type = "locked"}) = 1

\* a sign window that alternates from one symbol to the next
Alternating(buf) == \A i \in 1..(Len(buf) - 1) : buf[i] # buf[i + 1]

\* C13: every full sign window that holds a clean alternating sequence has
\* the normalized correlation 1.0, i.e. the sum of the products equals the
\* window length.
C13_PreambleScore ==
  (Len(signBuf) = preambleSymbols /\ Alternating(signBuf))
    => corrSum(signBuf) = preambleSymbols

\* the config message at the head of the tape was handled by this step
ConfigHandled == tape # <<>> /\ Head(tape).op = "config" /\ tape' = Tail(tape)

\* C14: once a config message is handled, the sample loop's state, the sign
\* window, the output batch, the lock and the holdoff have their post-reset
\* values, the NCO step, samples per symbol, low-pass cutoff and tap count
\* are those of the settings now in force, and the tap ring buffer is zeroed
\* and as long as the tap vector.
C14_ConfigResets ==
  [][ConfigHandled =>
       /\ dsp'.phase = "zero" /\ dsp'.freqCorr = "zero"
       /\ dsp'.lpI = "zero" /\ dsp'.lpQ = "zero"
       /\ dsp'.env = "initial" /\ dsp'.timeAcc = "zero" /\ dsp'.mfPos = "zero"
       /\ signBuf' = <<>> /\ outBits' = <<>>
       /\ ~lockedFlag' /\ holdoff' = 0 /\ pllReport' = 0
       /\ dsp'.fc = (IF Head(tape).fc >= 0 THEN Head(tape).fc ELSE dsp.fc)
       /\ dsp'.symbolRate = (IF Head(tape).sr > 0 THEN Head(tape).sr ELSE dsp.symbolRate)
       /\ dsp'.lpfFactor = (IF Head(tape).lpf > 0 THEN Head(tape).lpf ELSE dsp.lpfFactor)
       /\ dsp'.ncoStep = dsp'.fc
       /\ dsp'.spsFloat = <<SampleRate, dsp'.symbolRate>>
       /\ 2 * dsp'.symbolRate * dsp'.sps <= 2 * SampleRate + dsp'.symbolRate
       /\ 2 * dsp'.symbolRate * dsp'.sps > 2 * SampleRate - dsp'.symbolRate
       /\ dsp'.lpCutoff = Max(10 * MinCutoff, dsp'.symbolRate * dsp'.lpfFactor)
       /\ 4 * dsp'.symbolRate * dsp'.tapsLen <= 6 * SampleRate + 2 * dsp'.symbolRate
       /\ 4 * dsp'.symbolRate * dsp'.tapsLen > 6 * SampleRate - 2 * dsp'.symbolRate
       /\ dsp'.mfBufLen = dsp'.tapsLen /\ dsp'.mfBufZero
    ]_vars

\* a config message with a new carrier and symbol rate was handled while the
\* pipeline was Locked in holdoff with a full sign window and a running
\* sample loop, and nothing of that is left
C14_Witness ==
  /\ lastCfg.cmd.op = "config"
  /\ lastCfg.locked /\ lastCfg.held > 0 /\ lastCfg.window = preambleSymbols
  /\ lastCfg.was.phase = "running" /\ ~lastCfg.was.mfBufZero
  /\ lastCfg.was.symbolRate # dsp.symbolRate /\ lastCfg.was.fc # dsp.fc
  /\ lastCfg.was.tapsLen # dsp.tapsLen
  /\ signBuf = <<>> /\ ~lockedFlag /\ holdoff = 0
  /\ dsp.phase = "zero" /\ dsp.mfBufZero

\* C15: from the last config message on, the demodulator uses every value
\* the message carried: carrier, symbol rate, low-pass factor, lock
\* threshold, holdoff length, and the preamble length as the size of the
\* sign window and of the alternating reference.
C15_ParametersTakeEffect ==
  lastCfg.cmd.op = "config" =>
    /\ lastCfg.cmd.fc >= 0 => dsp.fc = lastCfg.cmd.fc
    /\ lastCfg.cmd.sr > 0 => dsp.symbolRate = lastCfg.cmd.sr
    /\ lastCfg.cmd.lpf > 0 => dsp.lpfFactor = lastCfg.cmd.lpf
    /\ lastCfg.cmd.th >= 0 => lockThreshold = lastCfg.cmd.th
    /\ lastCfg.cmd.hs >= 0 => holdoffSymbols = lastCfg.cmd.hs
    /\ lastCfg.cmd.pre > 0 =>
          /\ preambleSymbols = lastCfg.cmd.pre
          /\ Len(signBuf) <= lastCfg.cmd.pre

\* C16: a step that starts a listening session, and a settings change made
\* while listening, leave the synchronizer in its initial state: not synced,
\* bitBuffer empty, codedBuffer empty.
C16_Lifecycle ==
  [][(sessions' = sessions + 1 \/ (uiChanges' = uiChanges + 1 /\ listening))
       => (~synced' /\ bitBuffer' = <<>> /\ codedBuffer' = <<>>)]_vars

\* the length byte a frame carries: the first 8 body bits, which in FEC mode
\* are read from the first 16 coded bits
LengthByteIs(c, n) ==
  IF c.fec
    THEN SubSeq(c.bits, SyncEnd + 1, SyncEnd + 16) = SubSeq(convEncode(bytesToBits(<<n>>)), 1, 16)
    ELSE bitsToByte(SubSeq(c.bits, SyncEnd + 1, SyncEnd + 8)) = n

\* C17: a call of playFrame whose text encodes to more than 255 bytes ends
\* in the error with no bit produced, and only the other calls create a
\* buffer and start a source; a text of 0..255 bytes does not raise and the
\* frame's length byte is its byte count.
C17_InputRejection ==
  /\ \A i \in 1..Len(tx.calls) :
        /\ tx.calls[i].error <=> tx.calls[i].bytes > 255
        /\ tx.calls[i].error => (tx.calls[i].bits = <<>> /\ tx.calls[i].samples = 0)
        /\ ~tx.calls[i].error =>
              (tx.calls[i].bits # <<>> /\ LengthByteIs(tx.calls[i], tx.calls[i].bytes))
  /\ tx.buffers = Cardinality({i \in 1..Len(tx.calls) : ~tx.calls[i].error})
  /\ tx.started = tx.buffers
  /\ \A fec \in BOOLEAN :
        /\ ~buildFrameBitsOf(<<>>, fec).error
        /\ LengthByteIs([fec |-> fec, bits |-> buildFrameBitsOf(<<>>, fec).bits], 0)

\* a 255-byte text was sent, then a text of 128 two-byte characters was
\* rejected
C17_Witness ==
  /\ Len(tx.calls) = 2
  /\ tx.calls[1].bytes = 255 /\ ~tx.calls[1].error
  /\ tx.calls[2].bytes = 256 /\ tx.calls[2].error /\ tx.calls[2].bits = <<>>
  /\ tx.buffers = 1 /\ tx.started = 1

\* 0xA5A5A5A5, most significant bit first
SyncPattern ==
  <<1,0,1,0,0,1,0,1, 1,0,1,0,0,1,0,1, 1,0,1,0,0,1,0,1, 1,0,1,0,0,1,0,1>>

\* the body of a frame before FEC: length, version 1, payload, CRC-16 over
\* the three, high byte first
PlainBody(payload) ==
  bytesToBits(<<Len(payload), 1>> \o payload
                \o <<crc16(<<Len(payload), 1>> \o payload) \div 256,
                      crc16(<<Len(payload), 1>> \o payload) % 256>>)

\* the rate-1/2 code by its generators: with the input followed by 6 zeros
\* and preceded by zeros, output pair i is the parity of the inputs 0, 1, 3,
\* 4, 6 steps back (0x5b) and of the inputs 0, 3, 4, 5, 6 steps back (0x79)
InputAt(in, k) == IF k >= 1 /\ k <= Len(in) THEN in[k] ELSE 0

CodedBit(in, n) ==
  IF n % 2 = 1
    THEN (InputAt(in, (n + 1) \div 2) + InputAt(in, ((n + 1) \div 2) - 1)
           + InputAt(in, ((n + 1) \div 2) - 3) + InputAt(in, ((n + 1) \div 2) - 4)
           + InputAt(in, ((n + 1) \div 2) - 6)) % 2
    ELSE (InputAt(in, n \div 2) + InputAt(in, (n \div 2) - 3)
           + InputAt(in, (n \div 2) - 4) + InputAt(in, (n \div 2) - 5)
           + InputAt(in, (n \div 2) - 6)) % 2

CodedBody(info) == [n \in 1..(2 * (Len(info) + 6)) |-> CodedBit(info, n)] \o <<>>

\* the frame a call of playFrame built has the wire format
WireFormat(c) ==
  /\ Len(c.bits) = IF c.fec THEN 112 + 2 * (32 + 8 * Len(c.payload) + 6)
                            ELSE 112 + 32 + 8 * Len(c.payload)
  /\ \A k \in 1..80 : c.bits[k] = k % 2
  /\ SubSeq(c.bits, 81, 112) = SyncPattern
  /\ Let(PlainBody(c.payload),
         LAMBDA body : SubSeq(c.bits, 113, Len(c.bits))
                         = IF c.fec THEN CodedBody(body) ELSE body)

\* C18: every frame buildFrameBits returns is 80 alternating preamble bits
\* starting with 1, the 32 bits of 0xA5A5A5A5, and the body: length, version
\* 1, payload and CRC-16 as they are in plain mode, their rate-1/2 encoding
\* with 6 flush bits in FEC mode; preamble and sync word are never coded.
C18_WireFormat ==
  [][Len(tx.calls') > Len(tx.calls) =>
       (~tx.calls'[Len(tx.calls')].error => WireFormat(tx.calls'[Len(tx.calls')]))]_vars

\* a FEC frame of 255 bytes and a plain frame of a two-byte character were
\* built
C18_Witness ==
  /\ Len(tx.calls) = 2
  /\ tx.calls[1].fec /\ tx.calls[1].bytes = 255
  /\ Len(tx.calls[1].bits) = 112 + 2 * (32 + 8 * 255 + 6)
  /\ ~tx.calls[2].fec /\ tx.calls[2].payload = <<195, 169>>
  /\ Len(tx.calls[2].bits) = 160

\* the information part of a decoder output: all but the last 6 bits
InfoPart(decoded) == SubSeq(decoded, 1, Len(decoded) - FLUSH_BITS)

\* C19: over a noiseless coded stream, viterbiDecode(convEncode(b)) without
\* its last 6 bits is b.
C19_ConvRoundTrip ==
  (codec.stage = "decoded" /\ codec.flips = {})
    => (Len(codec.decoded) = Len(codec.info) + FLUSH_BITS
         /\ InfoPart(codec.decoded) = codec.info)

\* a sequence of MaxInfoLen bits that ends in 1 went through encoder and
\* decoder unharmed
C19_Witness ==
  /\ codec.stage = "decoded" /\ codec.flips = {}
  /\ Len(codec.info) = MaxInfoLen /\ codec.info[MaxInfoLen] = 1
  /\ codec.rx = codec.coded /\ Len(codec.coded) = 2 * (MaxInfoLen + FLUSH_BITS)
  /\ InfoPart(codec.decoded) = codec.info

\* C20: with one coded bit flipped, at any position, or with several flips
\* far apart, the information part of the viterbiDecode output is still b.
C20_ErrorCorrection ==
  (codec.stage = "decoded" /\ codec.flips # {})
    => (codec.rx # codec.coded /\ InfoPart(codec.decoded) = codec.info)

\* the last coded bit of a sequence ending in 1 was flipped and the decoder
\* still returned the sequence
C20_Witness ==
  /\ codec.stage = "decoded"
  /\ codec.flips = {Len(codec.coded)}
  /\ codec.info # <<>> /\ codec.info[Len(codec.info)] = 1
  /\ InfoPart(codec.decoded) = codec.info

\* C21: flipping any single bit of length, version and payload changes the
\* value of crc16, so the corrupted bytes never pass the CRC comparison
\* against the CRC of the original.
C21_CrcSingleBit ==
  codec.stage = "verified"
    => (/\ codec.rx # codec.bytes
        /\ Len(codec.rx) = Len(codec.bytes)
        /\ codec.calc # codec.crc
        /\ ~crcMatches(codec.crc, codec.calc))

\* the first bit of the length byte of the longest input was flipped and the
\* CRC came out different
C21_Witness ==
  /\ codec.stage = "verified"
  /\ Len(codec.bytes) = MaxCrcPayload + 2
  /\ codec.at = 1
  /\ codec.rx[1] = codec.bytes[1] + 128
  /\ codec.calc # codec.crc

\* the bits kept for frame parsing
Kept == IF useFEC THEN codedBuffer ELSE bitBuffer

\* kept is what follows the first occurrence of the sync word in buf
FollowsFirstSync(buf, kept) ==
  \E i \in 0..(Len(buf) - Len(syncBits)) :
     /\ SubSeq(buf, i + 1, i + Len(syncBits)) = syncBits
     /\ \A h \in 0..(i - 1) : SubSeq(buf, h + 1, h + Len(syncBits)) # syncBits
     /\ kept = SubSeq(buf, i + Len(syncBits) + 1, Len(buf))

\* C22: when the sync word is found, the bits kept for frame parsing are
\* the bits that followed its first occurrence in the buffer; each later
\* batch is appended to them unchanged until the frame cycle completes.
C22_Retention ==
  [][IsHandleBits =>
       /\ (~synced /\ synced') => FollowsFirstSync(bitBuffer \o Batch, Kept')
       /\ (synced /\ synced') => Kept' = Kept \o Batch]_vars

\* after the sync word of a coded frame, two batches have been kept: the
\* rest of the batch that held the sync word and the one after it
C22_Witness ==
  /\ synced /\ useFEC /\ scn.shape = "pair"
  /\ fed > SyncEnd + BatchSmall
  /\ fed < SyncEnd + 2 * BatchSmall
  /\ codedBuffer = SubSeq(TxFrame(scn), SyncEnd + 1, fed)

\* the 'bits' messages among msgs
BitsMessages(msgs) == SelectSeq(msgs, LAMBDA m : m.type = "bits")

BlockProcessed == tape # <<>> /\ lastSyms' # <<>> /\ tape' = SubSeq(tape, Len(lastSyms') + 1, Len(tape))

\* C23: a block posts at most one 'bits' message and never an empty one,
\* holding in order exactly the decisions forwarded during the block; the
\* output batch is empty between blocks, so a reset or config command finds
\* nothing in it to discard.
C23_OutputBatching ==
  /\ [](outBits = <<>>)
  /\ [](/\ Len(BitsMessages(demodOut)) <= 1
        /\ \A k \in 1..Len(demodOut) :
              demodOut[k].type = "bits" => demodOut[k].bits # <<>>)
  /\ [][BlockProcessed =>
         BitsMessages(demodOut') =
           (IF PushedBits(lastSyms') = <<>> THEN <<>>
            ELSE <<[type |-> "bits", bits |-> PushedBits(lastSyms')]>>)]_vars
  /\ [][CommandHandled => outBits = <<>> /\ outBits' = <<>>]_vars

\* a block of two symbols of which the first was forwarded and the second,
\* the one that locked, was held back: the message holds the first alone
C23_Witness ==
  /\ Len(lastSyms) = 2
  /\ lastSyms[1].pushed /\ ~lastSyms[2].pushed
  /\ BitsMessages(demodOut) = <<[type |-> "bits", bits |-> <<lastSyms[1].bit>>]>>
  /\ outBits = <<>>

\* C24: whatever the inputs hold, the values the settings take and the
\* config messages carry lie in the documented ranges: carrier 15..21 kHz,
\* symbol rate 100..1500 baud, lock threshold 0.1..0.95.
C24_ConfigClamped ==
  /\ settings.carrierHz \in 15000..21000
  /\ settings.symbolRate \in 100..1500
  /\ settings.lockThreshold \in 100..950
  /\ \A k \in 1..Len(settings.sent) :
        /\ settings.sent[k].carrierHz \in 15000..21000
        /\ settings.sent[k].symbolRate \in 100..1500
        /\ settings.sent[k].lockThreshold \in 100..950

\* the bits the decoder had before it when a batch had been pushed
Awaited == Kept \o Batch

\* C25: the length is read as an 8-bit value, so every decoded length lies in
\* 0..255 and the invalid-length branch is never taken; a frame with a
\* corrupted header is reported, as a CRC error, only once the
\* 16 + 8 * length + 16 bits of that length have arrived.
C25_LengthIsAByte ==
  /\ [](\A k \in 1..Len(events) :
          events[k].type # "invalidLength" /\ events[k].len \in 0..255)
  /\ [][Len(events') > Len(events) =>
         /\ Len(events') = Len(events) + 1
         /\ events'[Len(events')].type \in {"frame", "crcError"}
         /\ Len(Awaited) >= (IF useFEC
                               THEN 2 * (neededInfoBits(events'[Len(events')].len) + FLUSH_BITS)
                               ELSE neededInfoBits(events'[Len(events')].len))
         /\ (events'[Len(events')].len # scn.len =>
               events'[Len(events')].type = "crcError")]_vars

\* a frame sent with length 0 whose length byte arrived as 1 was reported as
\* a CRC error over 3 bytes
C25_Witness ==
  /\ scn.shape = "head" /\ scn.corr = "lsb" /\ scn.len = 0
  /\ events # <<>>
  /\ events[1].type = "crcError" /\ events[1].len = 1
  /\ Len(events[1].data) = 3

PreambleRun == 20    \* so many alternating symbols in a row occur only in a preamble

\* the last n entries of the sign window
WindowTail(buf, n) == SubSeq(buf, Len(buf) - n + 1, Len(buf))

\* the symbols of this step's block were preamble symbols received with the
\* sign window full: the window ends in a run of alternating symbols and
\* still begins with what was heard before the preamble
InPreamble ==
  /\ tape # <<>> /\ lastSyms' # <<>>
  /\ tape' = SubSeq(tape, Len(lastSyms') + 1, Len(tape))
  /\ Len(signBuf) = preambleSymbols
  /\ Len(signBuf') = preambleSymbols
  /\ Alternating(WindowTail(signBuf', PreambleRun))
  /\ ~Alternating(signBuf')

\* C26: on a clean preamble received with the sign window full, a pipeline
\* that has locked stays Locked on every following preamble symbol, its
\* holdoff only counts down, and no further 'locked' message is posted.
C26_LockStability ==
  [][(InPreamble /\ lockedFlag) =>
       /\ lockedFlag'
       /\ holdoff' <= holdoff
       /\ \A i \in 1..Len(lastSyms') :
             lastSyms'[i].locked /\ lastSyms'[i].said = 0]_vars

\* all the bits of a feed, in order
RECURSIVE WholeStream(_)
WholeStream(fd) == IF fd = <<>> THEN <<>> ELSE fd[1].bits \o WholeStream(Tail(fd))

\* the synchronizer as startListening leaves it on a fresh page
FreshSync ==
  [bitBuffer |-> <<>>, codedBuffer |-> <<>>, synced |-> FALSE, events |-> <<>>,
   resets |-> 0]

\* the reports made when the whole stream arrives as a single batch
EventsOfOneBatch(sc) == handleBits(FreshSync, WholeStream(Segs(sc)), sc.fec, TRUE).events

\* C27: once the whole stream has been consumed, the frame and CRC-error
\* reports are the same for every split into batches: those of the run in
\* which the stream arrives as one batch.
C27_BatchingIndependence ==
  (feed = <<>> /\ sessions = 1 /\ listening) => events = EventsOfOneBatch(scn)

\* C28: in preamble, sync word, body as buildFrameBits makes them, with the
\* whole preamble or only its last bits in the buffer, the first match of
\* findSync starts right behind the preamble: at bit index 80 of the whole
\* frame, never inside the preamble or across its end.
C28_NoFalseSync ==
  codec.stage = "searched"
    => /\ codec.idx = codec.keep
       /\ SubSeq(codec.bits, codec.idx + 1, codec.idx + Len(syncBits)) = syncBits

\* the whole frame was searched and the match found at index 80
C28_Witness ==
  /\ codec.stage = "searched"
  /\ codec.keep = PREAMBLE_BITS
  /\ codec.idx = PREAMBLE_BITS
  /\ SubSeq(codec.bits, 1, PREAMBLE_BITS) = buildPreambleBits

\* C29: while the page is not listening no bits batch is consumed and no
\* frame or CRC error is reported, also when 'bits' messages posted before
\* the node was disconnected are still to be delivered.
C29_StopIsFinal ==
  [][(~listening /\ ~listening') =>
       /\ fed' = fed
       /\ events' = events
       /\ <<bitBuffer', codedBuffer', synced'>> = <<bitBuffer, codedBuffer, synced>>]_vars

\* this step is a call of playFrame
Played == Len(tx.calls') = Len(tx.calls) + 1

\* the settings the step leaves are the ones it found
SameSettings ==
  /\ useFEC' = useFEC
  /\ settings'.carrierHz = settings.carrierHz
  /\ settings'.symbolRate = settings.symbolRate
  /\ settings'.lpfFactor = settings.lpfFactor
  /\ settings'.lockThreshold = settings.lockThreshold

\* C30: a playFrame that runs while the page listens and changes no setting
\* leaves synced, bitBuffer and codedBuffer as they were and sends the
\* demodulator nothing that changes its state, whether the frame is played
\* or the text rejected as too long.
C30_SendKeepsReception ==
  [][(Played /\ listening /\ SameSettings) =>
       /\ synced' = synced
       /\ bitBuffer' = bitBuffer
       /\ codedBuffer' = codedBuffer
       /\ configsPosted' = configsPosted
       /\ resetsPosted' = resetsPosted]_vars

\* C31: when sync word, length, payload and CRC of a packet are ingested
\* from the unlocked state, the byte-oriented receiver is locked from the
\* end of the sync word until the packet is complete, and then has reported
\* the message with the original payload and nothing else.
C31_VariantRoundTrip ==
  /\ (rxIn.pos >= Len(syncBits) /\ rxIn.pos < Len(rxIn.stream)) => rxState.isLocked
  /\ (rxIn.stream # <<>> /\ rxIn.pos = Len(rxIn.stream)) =>
        rxOut = <<[type |-> "msg", text |-> safeDecode(rxIn.payload)]>>

\* C32: in FEC mode the length read from the coded buffer is the same at
\* every decode attempt of one frame cycle, and it is the length byte of the
\* decoded bits the CRC is computed over.
C32_HeaderConsistency ==
  /\ \A i, j \in 1..Len(codec.lens) : codec.lens[i] = codec.lens[j]
  /\ \A k \in 1..Len(codec.s.events) :
       codec.s.events[k].type # "invalidLength"
         => codec.s.events[k].data[1] = codec.s.events[k].len

=============================================================================
